---- MODULE Spec2Model ----
(***************************************************************************)
(* Model of rgpxsee's GPX reader (src/gpx): the two streaming entry points *)
(* parse_track and parse_track_points of trkpt.rs, run side by side over   *)
(* one stream of tokenizer events, and the Segment / Track aggregates.     *)
(*                                                                         *)
(* Numbers (f64 in the source) are binary: m * 2^e with m of 53 bits at     *)
(* most, the infinities and NaN, and every operation rounds to the nearest *)
(* of them; texts and attribute values are sequences of one-character      *)
(* strings, so that parsing and unescaping are computed.                   *)
(***************************************************************************)
EXTENDS Integers, Sequences, FiniteSets, TLC

\* ------------------------------------------------------------- bounds

\* longest stream of the class that draws from every kind of event
MaxEvents == 3
\* longest stream of the class that draws segment and point tags only
MaxStructEvents == 7
\* longest stream of the class that draws the events of one point's fields
MaxFieldEvents == 5
\* most segments / points per segment of a directly constructed Track
MaxDirectPts == 4
\* the most points of a Segment built directly for its ascent and descent
MaxSegPts == 3
\* the most points, over all its segments, and the most segments of a Track
\* built directly for its distance
MaxDistPts == 4
MaxDistSegs == 2

\* ------------------------------------------------------------- values

\* Option<T>: None is the empty sequence, Some(v) the one-element sequence
None == <<>>
Some(v) == <<v>>
IsSome(o) == Len(o) = 1
Unwrap(o) == o[1]

RECURSIVE Pow2(_)
Pow2(n) == IF n = 0 THEN 1 ELSE 2 * Pow2(n - 1)

RECURSIVE Pow5(_)
Pow5(n) == IF n = 0 THEN 1 ELSE 5 * Pow5(n - 1)

Abs(n) == IF n < 0 THEN 0 - n ELSE n
Min(a, b) == IF a <= b THEN a ELSE b

\* ------------------------------------------------------------- whole numbers of any size

\* The significand of an f64 has 53 bits, and the sums, products and quotients
\* it is rounded from have more.  A whole number is the sequence of its digits
\* in base 2^15, the least significant first and the last one not 0; <<>> is 0.
LimbBits == 15
Base == 32768

\* x without the zeros that end it
Trim(x) == SubSeq(x, 1, Cardinality({i \in 1..Len(x) : \E j \in i..Len(x) : x[j] # 0}))

\* the whole number n
RECURSIVE Whole(_)
Whole(n) == IF n = 0 THEN <<>> ELSE <<n % Base>> \o Whole(n \div Base)

Limb(x, i) == IF i <= Len(x) THEN x[i] ELSE 0

\* x * k + carry for a k up to Base, from digit i on
RECURSIVE TimesFrom(_, _, _, _)
TimesFrom(x, i, k, carry) ==
    IF i > Len(x) THEN Whole(carry)
    ELSE <<(x[i] * k + carry) % Base>> \o TimesFrom(x, i + 1, k, (x[i] * k + carry) \div Base)

Times(x, k) == Trim(TimesFrom(x, 1, k, 0))

\* x divided by a k up to Base, from digit i down: the digits of the quotient,
\* the most significant first, and then the remainder
RECURSIVE DivFrom(_, _, _, _)
DivFrom(x, i, k, rem) ==
    IF i = 0 THEN <<rem>>
    ELSE <<(rem * Base + x[i]) \div k>> \o DivFrom(x, i - 1, k, (rem * Base + x[i]) % k)

QuotientOf(s) == [q |-> Trim([j \in 1..Len(s) - 1 |-> s[Len(s) - j]]), r |-> s[Len(s)]]

\* x / k: the quotient q and the remainder r
Div(x, k) == QuotientOf(DivFrom(x, Len(x), k, 0))

\* x + y
RECURSIVE PlusFrom(_, _, _, _)
PlusFrom(x, y, i, carry) ==
    IF i > Len(x) /\ i > Len(y) THEN Whole(carry)
    ELSE <<(Limb(x, i) + Limb(y, i) + carry) % Base>>
         \o PlusFrom(x, y, i + 1, (Limb(x, i) + Limb(y, i) + carry) \div Base)

Plus(x, y) == PlusFrom(x, y, 1, 0)

\* x - y for a y that is x at most
RECURSIVE MinusFrom(_, _, _, _)
MinusFrom(x, y, i, borrow) ==
    IF i > Len(x) THEN <<>>
    ELSE <<(x[i] - Limb(y, i) - borrow + Base) % Base>>
         \o MinusFrom(x, y, i + 1, IF x[i] - Limb(y, i) - borrow < 0 THEN 1 ELSE 0)

Minus(x, y) == Trim(MinusFrom(x, y, 1, 0))

\* x < y
Less(x, y) ==
    IF Len(x) # Len(y) THEN Len(x) < Len(y)
    ELSE \E i \in 1..Len(x) : x[i] < y[i] /\ \A j \in i + 1..Len(x) : x[j] = y[j]

IsOdd(x) == Len(x) > 0 /\ x[1] % 2 = 1

\* how many bits the number n below Base has, and how many zeros end them
RECURSIVE Bits(_)
Bits(n) == IF n = 0 THEN 0 ELSE 1 + Bits(n \div 2)

RECURSIVE LowZeros(_)
LowZeros(n) == IF n % 2 = 1 THEN 0 ELSE 1 + LowZeros(n \div 2)

\* how many bits x has
BitLen(x) == IF Len(x) = 0 THEN 0 ELSE LimbBits * (Len(x) - 1) + Bits(x[Len(x)])

\* x * 2^n
ShiftLeft(x, n) ==
    IF Len(x) = 0 THEN x
    ELSE [i \in 1..n \div LimbBits |-> 0] \o Times(x, Pow2(n % LimbBits))

\* x / 2^n, d the digits of x from 2^n on over what is left of 2^n: the
\* quotient, and whether a bit that is 1 is lost
Halved(x, n, d) ==
    [q |-> d.q,
     lost |-> d.r # 0 \/ \E i \in 1..Min(Len(x), n \div LimbBits) : x[i] # 0]

ShiftRight(x, n) ==
    Halved(x, n, Div(SubSeq(x, n \div LimbBits + 1, Len(x)), Pow2(n % LimbBits)))

\* x * 5^n, by halves of n down to six powers at a time
RECURSIVE TimesPow5(_, _)
TimesPow5(x, n) ==
    IF Len(x) = 0 THEN x
    ELSE IF n <= 6 THEN Times(x, Pow5(n))
    ELSE TimesPow5(TimesPow5(x, n \div 2), n - n \div 2)

\* x * 10^n
TimesPow10(x, n) == ShiftLeft(TimesPow5(x, n), n)

\* a quotient and whether a remainder, its own or an earlier one, is lost
Lossy(d, lost) == [q |-> d.q, lost |-> lost \/ d.r # 0]
Later(d, lost) == [q |-> d.q, lost |-> lost \/ d.lost]

\* x / 5^n, by halves of n down to six powers at a time
RECURSIVE DivPow5(_, _)
RECURSIVE DivPow5After(_, _)
DivPow5(x, n) ==
    IF n <= 6 THEN Lossy(Div(x, Pow5(n)), FALSE)
    ELSE DivPow5After(DivPow5(x, n \div 2), n - n \div 2)

DivPow5After(d, n) ==
    IF Len(d.q) = 0 THEN d ELSE Later(DivPow5(d.q, n), d.lost)

\* ------------------------------------------------------------- f64

\* An f64 is a finite value, an infinity or NaN.  A finite value is
\* (-1)^neg * m * 2^e with m a whole number that is odd, of 53 bits at most,
\* e >= -1074 and m * 2^e < 2^1024; zero, of either sign, is m = 0 with e = 0
\* and neg = FALSE.
Finite(neg, m, e) == [kind |-> "finite", neg |-> neg, m |-> m, e |-> e]
Infinite(negative) == [kind |-> "inf", neg |-> negative, m |-> <<>>, e |-> 0]
NaN == [kind |-> "nan", neg |-> FALSE, m |-> <<>>, e |-> 0]
Zero == Finite(FALSE, <<>>, 0)

\* m * 2^e, m not 0 and z of its digits 0 before the first that is not, with
\* the zero bits that end m moved to the exponent
Stripped(neg, m, e, z) ==
    Finite(neg, Div(SubSeq(m, z + 1, Len(m)), Pow2(LowZeros(m[z + 1]))).q,
           e + LimbBits * z + LowZeros(m[z + 1]))

\* the f64 of magnitude q * 2^u, q of 53 bits at most: infinite from 2^1024 on
Ranged(neg, q, u) ==
    IF Len(q) = 0 THEN Zero
    ELSE IF BitLen(q) + u > 1024 THEN Infinite(neg)
    ELSE Stripped(neg, q, u, Cardinality({i \in 1..Len(q) : \A j \in 1..i : q[j] = 0}))

\* h.q is the magnitude in halves of the unit the f64 keeps and q in units:
\* to the nearest unit, and to the even one of two units as near
Nearest(h, q, lost) ==
    IF IsOdd(h.q) /\ (lost \/ IsOdd(q)) THEN Plus(q, <<1>>) ELSE q

Rounding(neg, h, more, u) ==
    Ranged(neg, Nearest(h, Div(h.q, 2).q, more \/ h.lost), u)

\* u is the exponent of the last bit the f64 keeps: m * 2^e as it is when it
\* has no bit below it, rounded otherwise
RoundAt(neg, m, e, more, u) ==
    IF u <= e THEN Ranged(neg, m, e)
    ELSE Rounding(neg, ShiftRight(m, u - e - 1), more, u)

\* the f64 nearest to (m + f) * 2^e, where 0 <= f < 1 and f > 0 iff more; a
\* value with more comes with 55 bits or more in m.  The last bit an f64 keeps
\* is 52 below its first bit, and at 2^-1074 at least.
RoundF64(neg, m, e, more) ==
    RoundAt(neg, m, e, more,
            IF BitLen(m) + e - 53 > 0 - 1074 THEN BitLen(m) + e - 53 ELSE 0 - 1074)

\* the f64 nearest to a quotient d.q * 2^e of which more is lost iff d.lost
RoundQuotient(neg, d, e) == RoundF64(neg, d.q, e, d.lost)

\* the f64 of a whole number
Num(n) == RoundF64(n < 0, Whole(Abs(n)), 0, FALSE)

\* the exponent above the first bit of a finite value that is not 0
Top(a) == BitLen(a.m) + a.e

\* the sum of two finite values that are not 0, x and y their magnitudes in
\* units of 2^e, the lesser of their exponents
FiniteSum(a, b, x, y, e) ==
    IF a.neg = b.neg THEN RoundF64(a.neg, Plus(x, y), e, FALSE)
    ELSE IF x = y THEN Zero
    ELSE IF Less(x, y) THEN RoundF64(b.neg, Minus(y, x), e, FALSE)
    ELSE RoundF64(a.neg, Minus(x, y), e, FALSE)

\* a + b, rounded to the nearest f64; a value more than 2^64 times the other
\* is the sum
F64Add(a, b) ==
    IF a.kind = "nan" \/ b.kind = "nan" THEN NaN
    ELSE IF a.kind = "inf" THEN (IF b.kind = "inf" /\ b.neg # a.neg THEN NaN ELSE a)
    ELSE IF b.kind = "inf" THEN b
    ELSE IF a = Zero THEN b
    ELSE IF b = Zero THEN a
    ELSE IF Top(a) - Top(b) > 64 THEN a
    ELSE IF Top(b) - Top(a) > 64 THEN b
    ELSE FiniteSum(a, b, ShiftLeft(a.m, a.e - Min(a.e, b.e)),
                   ShiftLeft(b.m, b.e - Min(a.e, b.e)), Min(a.e, b.e))

\* -a, which is also a.abs() of a negative a
F64Neg(a) == IF a.kind = "nan" \/ a = Zero THEN a ELSE [a EXCEPT !.neg = ~@]

\* a - b
F64Sub(a, b) == F64Add(a, F64Neg(b))

\* a > 0.0 and a < 0.0: both false of NaN
F64Positive(a) == a.kind # "nan" /\ a # Zero /\ ~a.neg
F64Negative(a) == a.kind # "nan" /\ a.neg

\* a / 1000.0, rounded to the nearest f64: m * 2^75 / 1000 is the magnitude in
\* units of 2^(e - 75)
F64Div1000(a) ==
    IF a.kind # "finite" \/ a = Zero THEN a
    ELSE RoundQuotient(a.neg, Lossy(Div(ShiftLeft(a.m, 75), 1000), FALSE), a.e - 75)

\* the f64 nearest to the decimal d * 10^k, d a whole number of nd digits: it
\* is infinite from 10^309 on and 0 below 10^-324.  10^k is 5^k * 2^k, and
\* for a k below 0 the quotient d * 2^s / 5^-k is taken with an s that leaves
\* it 64 bits or more.
DecimalToF64(neg, d, nd, k) ==
    IF Len(d) = 0 \/ nd + k < 0 - 323 THEN Zero
    ELSE IF nd + k > 309 THEN Infinite(neg)
    ELSE IF k >= 0 THEN RoundF64(neg, TimesPow5(d, k), k, FALSE)
    ELSE RoundQuotient(neg,
                       DivPow5(ShiftLeft(d, LimbBits * ((5 - k) \div 6 + 5)), 0 - k),
                       k - LimbBits * ((5 - k) \div 6 + 5))

RECURSIVE DigitCount(_)
DigitCount(n) == IF n < 10 THEN 1 ELSE 1 + DigitCount(n \div 10)

\* the f64 nearest to m * 10^e
Dec(m, e) == DecimalToF64(m < 0, Whole(Abs(m)), DigitCount(Abs(m)), e)

\* ------------------------------------------------------------- input texts

\* attribute values and texts, character by character
V1_0 == <<"1", ".", "0">>
V2_0 == <<"2", ".", "0">>
V1 == <<"1">>
V2 == <<"2">>
V0_0 == <<"0", ".", "0">>
V0_001 == <<"0", ".", "0", "0", "1">>
V0_002 == <<"0", ".", "0", "0", "2">>
Vabc == <<"a", "b", "c">>
T100 == <<"1", "0", "0">>
T110 == <<"1", "1", "0">>
T105 == <<"1", "0", "5">>
T123_45 == <<"1", "2", "3", ".", "4", "5">>
TTime == <<"2", "0", "2", "4", "-", "0", "1", "-", "0", "1", "T",
           "0", "0", ":", "0", "0", ":", "0", "0", "Z">>
\* numbers with an exponent, and the same number in two notations
V1e0 == <<"1", "e", "0">>
V0_2E1 == <<"0", ".", "2", "E", "1">>
T1e2 == <<"1", "e", "2">>
\* a number with more decimal places than any other of the model
T0_0009 == <<"0", ".", "0", "0", "0", "9">>
\* "&#49;10" and "&#x31;05", which unescape to "110" and "105"
TReference110 == <<"&", "#", "4", "9", ";", "1", "0">>
THexReference105 == <<"&", "#", "x", "3", "1", ";", "0", "5">>
\* texts that parse as an infinity and as NaN
TInf == <<"i", "n", "f">>
TNaN == <<"N", "a", "N">>
\* "a&lt;b", which unescapes to "a<b"
TEscaped == <<"a", "&", "l", "t", ";", "b">>
\* "&x;", a reference to an entity that does not exist
TBadEntity == <<"&", "x", ";">>

\* ------------------------------------------------------------- str::parse::<f64>

Digits == <<"0", "1", "2", "3", "4", "5", "6", "7", "8", "9">>
IsDigit(c) == \E i \in 1..10 : Digits[i] = c
DigitVal(c) == (CHOOSE i \in 1..10 : Digits[i] = c) - 1

AllDigits(s) == \A i \in 1..Len(s) : IsDigit(s[i])

RECURSIVE DigitsVal(_)
DigitsVal(s) ==
    IF Len(s) = 0 THEN 0
    ELSE 10 * DigitsVal(SubSeq(s, 1, Len(s) - 1)) + DigitVal(s[Len(s)])

\* the letters of inf, infinity and nan, which are read in either case
UpperCase == <<"I", "N", "F", "T", "Y", "A">>
LowerCase == <<"i", "n", "f", "t", "y", "a">>

\* s is the lower-case word in either case, letter by letter
IsWord(s, word) ==
    /\ Len(s) = Len(word)
    /\ \A i \in 1..Len(s) :
          \/ s[i] = word[i]
          \/ \E k \in 1..Len(UpperCase) : LowerCase[k] = word[i] /\ UpperCase[k] = s[i]

\* the digits and points of a mantissa
Dots(body) == {i \in 1..Len(body) : body[i] = "."}

\* a mantissa: digits with at most one point and at least one digit
WellFormed(body) ==
    /\ \A i \in 1..Len(body) : IsDigit(body[i]) \/ body[i] = "."
    /\ Cardinality(Dots(body)) <= 1
    /\ \E i \in 1..Len(body) : IsDigit(body[i])

\* where the fraction starts: at the point, or after the last digit
DotPos(body) == IF Dots(body) = {} THEN Len(body) + 1 ELSE CHOOSE i \in Dots(body) : TRUE

\* where the exponent starts: at the first e or E, or after the last character
ExpPos(body) ==
    LET marks == {i \in 1..Len(body) : body[i] \in {"e", "E"}}
    IN  IF marks = {} THEN Len(body) + 1
        ELSE CHOOSE i \in marks : \A j \in marks : i <= j

\* what follows the e of an exponent without its sign
ExpDigits(x) == IF Len(x) > 0 /\ x[1] \in {"+", "-"} THEN Tail(x) ELSE x

\* an exponent: an optional sign and at least one digit
ExponentOk(x) == Len(ExpDigits(x)) > 0 /\ AllDigits(ExpDigits(x))

\* the value of the digits s of an exponent after the value n of the digits
\* before them: a digit is taken in while the value is below 0x10000, and the
\* digits after that are read over
RECURSIVE ExpDigitsVal(_, _)
ExpDigitsVal(s, n) ==
    IF n >= 65536 \/ Len(s) = 0 THEN n
    ELSE ExpDigitsVal(Tail(s), 10 * n + DigitVal(s[1]))

Signed(negative, magnitude) == IF negative THEN 0 - magnitude ELSE magnitude

\* the exponent written after e; 0 when none is written
ExpVal(x) ==
    IF Len(x) = 0 THEN 0 ELSE Signed(x[1] = "-", ExpDigitsVal(ExpDigits(x), 0))

\* the whole number of the digits i to j of ds, by halves down to four digits
RECURSIVE DigitsWhole(_, _, _)
DigitsWhole(ds, i, j) ==
    IF j - i < 4 THEN Whole(DigitsVal(SubSeq(ds, i, j)))
    ELSE Plus(TimesPow10(DigitsWhole(ds, i, (i + j) \div 2), j - (i + j) \div 2),
              DigitsWhole(ds, (i + j) \div 2 + 1, j))

\* how many zeros start the digits ds
LeadingZeros(ds) == Cardinality({i \in 1..Len(ds) : \A j \in 1..i : ds[j] = "0"})

\* the digits ds, the last frac of them after the point, times 10^exp
FracVal(ds, frac, exp, negative) ==
    DecimalToF64(negative, DigitsWhole(ds, 1, Len(ds)), Len(ds) - LeadingZeros(ds), exp - frac)

\* the f64 a mantissa with its point at dot and an exponent stand for
Magnitude(mant, dot, exp, negative) ==
    FracVal(SubSeq(mant, 1, dot - 1) \o SubSeq(mant, dot + 1, Len(mant)),
            IF dot > Len(mant) THEN 0 ELSE Len(mant) - dot, exp, negative)

ParseNumber(mant, exp, negative) ==
    IF ~WellFormed(mant) THEN [ok |-> FALSE, v |-> Zero]
    ELSE [ok |-> TRUE, v |-> Magnitude(mant, DotPos(mant), exp, negative)]

\* a mantissa up to epos and, when an e or E is there, an exponent after it
ParseDecimal(body, epos, negative) ==
    IF epos <= Len(body) /\ ~ExponentOk(SubSeq(body, epos + 1, Len(body)))
    THEN [ok |-> FALSE, v |-> Zero]
    ELSE ParseNumber(SubSeq(body, 1, epos - 1),
                     ExpVal(SubSeq(body, epos + 1, Len(body))), negative)

\* what follows the sign: a decimal, or inf, infinity or nan in any case
ParseBody(body, negative) ==
    IF IsWord(body, <<"i", "n", "f">>)
          \/ IsWord(body, <<"i", "n", "f", "i", "n", "i", "t", "y">>)
    THEN [ok |-> TRUE, v |-> Infinite(negative)]
    ELSE IF IsWord(body, <<"n", "a", "n">>) THEN [ok |-> TRUE, v |-> NaN]
    ELSE ParseDecimal(body, ExpPos(body), negative)

\* the texts of the documents of the model, parsed once
Parsed ==
    [s \in {V1_0, V2_0, V1, V2, V0_0, V0_001, V0_002, Vabc, T100, T110, T105, T123_45,
            TTime, V1e0, V0_2E1, T1e2, T0_0009, TInf, TNaN} |-> ParseBody(s, FALSE)]

\* str::parse::<f64>: an optional sign, then digits with at most one point and
\* at least one digit, then an optional exponent (e or E, an optional sign, at
\* least one digit); or, after the sign, inf, infinity or nan.  Anything else
\* is an error.
ParseF64(s) ==
    IF s \in DOMAIN Parsed THEN Parsed[s]
    ELSE IF Len(s) > 0 /\ s[1] \in {"+", "-"}
    THEN ParseBody(Tail(s), s[1] = "-")
    ELSE ParseBody(s, FALSE)

\* ------------------------------------------------------------- BytesText::unescape

\* the predefined entities BytesText::unescape resolves
Entities == << [name |-> <<"l", "t">>, char |-> "<"],
               [name |-> <<"g", "t">>, char |-> ">"],
               [name |-> <<"a", "m", "p">>, char |-> "&"],
               [name |-> <<"a", "p", "o", "s">>, char |-> "'"],
               [name |-> <<"q", "u", "o", "t">>, char |-> "\""] >>

\* the characters U+0020 to U+007E; the grave accent is written U+96
Ascii ==
    << " ", "!", "\"", "#", "$", "%", "&", "'", "(", ")", "*", "+", ",", "-", ".", "/",
       "0", "1", "2", "3", "4", "5", "6", "7", "8", "9", ":", ";", "<", "=", ">", "?",
       "@", "A", "B", "C", "D", "E", "F", "G", "H", "I", "J", "K", "L", "M", "N", "O",
       "P", "Q", "R", "S", "T", "U", "V", "W", "X", "Y", "Z", "[", "\\", "]", "^", "_",
       "U+96", "a", "b", "c", "d", "e", "f", "g", "h", "i", "j", "k", "l", "m", "n", "o",
       "p", "q", "r", "s", "t", "u", "v", "w", "x", "y", "z", "{", "|", "}", "~" >>

\* the character of a code point; one outside U+0020..U+007E is written U+code
CharOf(code) ==
    IF code >= 32 /\ code <= 126 THEN Ascii[code - 31] ELSE "U+" \o ToString(code)

HexDigits == <<"0", "1", "2", "3", "4", "5", "6", "7", "8", "9",
               "a", "b", "c", "d", "e", "f", "A", "B", "C", "D", "E", "F">>
IsHexDigit(c) == \E i \in 1..Len(HexDigits) : HexDigits[i] = c
HexDigitVal(c) ==
    IF (CHOOSE i \in 1..Len(HexDigits) : HexDigits[i] = c) <= 16
    THEN (CHOOSE i \in 1..Len(HexDigits) : HexDigits[i] = c) - 1
    ELSE (CHOOSE i \in 1..Len(HexDigits) : HexDigits[i] = c) - 7

\* u32::from_str_radix: the value of the digits s after the value n of the
\* digits before them.  A value above U+10FFFF is no char, whether u32 holds
\* it or not, and stands for every value above it.
RECURSIVE RadixVal(_, _, _)
RadixVal(s, radix, n) ==
    IF n > 1114111 \/ Len(s) = 0 THEN n
    ELSE RadixVal(Tail(s), radix, radix * n + HexDigitVal(s[1]))

\* the code a character reference names after its "#": hexadecimal digits after
\* an x, or decimal digits, one at least and however many, zeros before them
\* included; 0 stands for an error
ReferenceCode(ref) ==
    IF Len(ref) > 0 /\ ref[1] = "x"
    THEN (IF Len(ref) = 1 \/ ~(\A i \in 2..Len(ref) : IsHexDigit(ref[i])) THEN 0
          ELSE RadixVal(Tail(ref), 16, 0))
    ELSE IF Len(ref) = 0 \/ ~AllDigits(ref) THEN 0
    ELSE RadixVal(ref, 10, 0)

\* a code that is a char: not 0, not a surrogate, U+10FFFF at most
IsChar(code) == code > 0 /\ code <= 1114111 /\ ~(code >= 55296 /\ code <= 57343)

\* "&name;" resolved: a character reference when the name starts with "#",
\* a predefined entity otherwise
Resolved(name, known) ==
    IF Len(name) > 0 /\ name[1] = "#"
    THEN (IF IsChar(ReferenceCode(Tail(name)))
          THEN [ok |-> TRUE, char |-> CharOf(ReferenceCode(Tail(name)))]
          ELSE [ok |-> FALSE, char |-> ""])
    ELSE IF known = {} THEN [ok |-> FALSE, char |-> ""]
    ELSE [ok |-> TRUE, char |-> Entities[CHOOSE j \in known : TRUE].char]

\* the text unescaped so far with what "&name;", which ends at semi, stands for
AfterReference(st, semi, r) ==
    IF ~r.ok THEN [st EXCEPT !.ok = FALSE, !.s = <<>>]
    ELSE [st EXCEPT !.i = semi + 1, !.s = Append(@, r.char)]

\* one step of unescape at position st.i: a plain character is copied; "&name;"
\* is replaced by its character; an "&" that another "&" or the end of the text
\* follows before a ";", and a name that is not known, are errors
UnescapeStep(s, st) ==
    IF s[st.i] # "&"
    THEN [st EXCEPT !.i = @ + 1, !.s = Append(@, s[st.i])]
    ELSE LET marks == {j \in st.i + 1..Len(s) : s[j] \in {";", "&"}}
             semi == CHOOSE j \in marks : \A k \in marks : j <= k
             name == SubSeq(s, st.i + 1, semi - 1)
             known == {j \in 1..Len(Entities) : Entities[j].name = name}
         IN  IF marks = {} THEN [st EXCEPT !.ok = FALSE, !.s = <<>>]
             ELSE IF s[semi] = "&" THEN [st EXCEPT !.ok = FALSE, !.s = <<>>]
             ELSE AfterReference(st, semi, Resolved(name, known))

RECURSIVE UnescapeFrom(_, _)
UnescapeFrom(s, st) ==
    IF ~st.ok \/ st.i > Len(s) THEN st ELSE UnescapeFrom(s, UnescapeStep(s, st))

\* BytesText::unescape
Unescape(s) == UnescapeFrom(s, [ok |-> TRUE, i |-> 1, s |-> <<>>])

\* ------------------------------------------------------------- errors (err.rs)

\* impl From<quick_xml::Error> / From<AttrError> for InternalError
InternalFromXml == "Xml"

\* impl From<InternalError> for Error
ErrorFrom(internal) ==
    CASE internal = "Io" -> "Input"
      [] internal = "Xml" -> "InvalidFormat"
      [] internal = "InvalidTrackPoint" -> "InvalidData"

\* ------------------------------------------------------------- points and fields

TrackPoint(lat, lon, time, ele) == [lat |-> lat, lon |-> lon, time |-> time, ele |-> ele]

\* mutant: a text that is no number leaves the elevation absent
SetEle_Lenient(pt, v) ==
    IF ~v.ok THEN [ok |-> TRUE, err |-> "", pt |-> pt]
    ELSE [ok |-> TRUE, err |-> "", pt |-> [pt EXCEPT !.ele = Some(v.v)]]

\* apply_ele once the text is parsed
SetEle(pt, v) ==
    IF ~v.ok THEN [ok |-> FALSE, err |-> "InvalidTrackPoint", pt |-> pt]
    ELSE [ok |-> TRUE, err |-> "", pt |-> [pt EXCEPT !.ele = Some(v.v)]]

\* Result<(), InternalError> of a field handler, with the point as it leaves it
apply_ele(pt, s) == SetEle(pt, ParseF64(s))

apply_time(pt, s) == [ok |-> TRUE, err |-> "", pt |-> [pt EXCEPT !.time = Some(s)]]

HANDLERS == << [tag |-> "time", apply |-> "apply_time"],
               [tag |-> "ele", apply |-> "apply_ele"] >>

\* the call through the function pointer: apply(pt, &s)
Apply(fn, pt, s) == IF fn = "apply_ele" THEN apply_ele(pt, s) ELSE apply_time(pt, s)

find_handler(tag) ==
    LET hits == {i \in 1..Len(HANDLERS) : HANDLERS[i].tag = tag}
    IN  IF hits = {} THEN None
        ELSE Some(HANDLERS[CHOOSE i \in hits : \A j \in hits : i <= j].apply)

TextResult(u) ==
    IF u.ok THEN [ok |-> TRUE, err |-> "", s |-> u.s]
    ELSE [ok |-> FALSE, err |-> InternalFromXml, s |-> <<>>]

read_text_string(text) == TextResult(Unescape(text))

\* an attribute as the iterator yields it: ok = FALSE is an AttrError, utf8 =
\* FALSE a value that is not valid UTF-8
Attr(key, value) == [ok |-> TRUE, key |-> key, value |-> value, utf8 |-> TRUE]

AttrResult(v) ==
    IF v.ok THEN [ok |-> TRUE, err |-> "", v |-> v.v]
    ELSE [ok |-> FALSE, err |-> "InvalidTrackPoint", v |-> Zero]

parse_attr_f64(attr) ==
    IF ~attr.utf8 THEN [ok |-> FALSE, err |-> "InvalidTrackPoint", v |-> Zero]
    ELSE AttrResult(ParseF64(attr.value))

\* lat = Some(parse_attr_f64(..)?) or lon = Some(parse_attr_f64(..)?)
SetCoordinate(acc, key, v) ==
    IF ~v.ok THEN [acc EXCEPT !.ok = FALSE, !.err = v.err]
    ELSE IF key = "lat" THEN [acc EXCEPT !.lat = Some(v.v)]
    ELSE [acc EXCEPT !.lon = Some(v.v)]

\* the body of the for loop of parse_trkpt on one attribute
ScanAttr(acc, attr) ==
    IF ~attr.ok THEN [acc EXCEPT !.ok = FALSE, !.err = InternalFromXml]
    ELSE IF attr.key \in {"lat", "lon"} THEN SetCoordinate(acc, attr.key, parse_attr_f64(attr))
    ELSE acc

\* the for loop of parse_trkpt from attribute i on; an error returns at once
RECURSIVE ScanAttrs(_, _, _)
ScanAttrs(attrs, i, acc) ==
    IF ~acc.ok \/ i > Len(attrs) THEN acc
    ELSE ScanAttrs(attrs, i + 1, ScanAttr(acc, attrs[i]))

\* the match (lat, lon) that ends parse_trkpt
PointOf(scan) ==
    IF ~scan.ok THEN [ok |-> FALSE, err |-> scan.err, pt |-> None]
    ELSE IF IsSome(scan.lat) /\ IsSome(scan.lon)
    THEN [ok |-> TRUE, err |-> "",
          pt |-> Some(TrackPoint(Unwrap(scan.lat), Unwrap(scan.lon), None, None))]
    ELSE [ok |-> FALSE, err |-> "InvalidTrackPoint", pt |-> None]

parse_trkpt(attrs) ==
    PointOf(ScanAttrs(attrs, 1, [ok |-> TRUE, err |-> "", lat |-> None, lon |-> None]))

\* ------------------------------------------------------------- Segment and Track

Segment(pts) == [points |-> pts]
Track(segs) == [segments |-> segs]

\* mutant: the descent takes the delta as it is, not its magnitude
AscentDescentStep_SignedDescent(acc, a, b) ==
    IF ~(IsSome(a.ele) /\ IsSome(b.ele)) THEN acc
    ELSE IF F64Positive(F64Sub(Unwrap(b.ele), Unwrap(a.ele)))
    THEN <<F64Add(acc[1], F64Sub(Unwrap(b.ele), Unwrap(a.ele))), acc[2]>>
    ELSE IF F64Negative(F64Sub(Unwrap(b.ele), Unwrap(a.ele)))
    THEN <<acc[1], F64Add(acc[2], F64Sub(Unwrap(b.ele), Unwrap(a.ele)))>>
    ELSE acc

\* the elevation of a point, 0 when it has none
EleOrZero(p) == IF IsSome(p.ele) THEN Unwrap(p.ele) ELSE Zero

\* mutant: a point without elevation counts as a point at elevation 0
AscentDescentStep_MissingAsZero(acc, a, b) ==
    IF F64Positive(F64Sub(EleOrZero(b), EleOrZero(a)))
    THEN <<F64Add(acc[1], F64Sub(EleOrZero(b), EleOrZero(a))), acc[2]>>
    ELSE IF F64Negative(F64Sub(EleOrZero(b), EleOrZero(a)))
    THEN <<acc[1], F64Add(acc[2], F64Sub(EleOrZero(a), EleOrZero(b)))>>
    ELSE acc

\* the body of the loop of Segment::total_ascent_descent_m on the window (a, b),
\* with acc = <<ascent, descent>>
AscentDescentStep(acc, a, b) ==
    IF ~(IsSome(a.ele) /\ IsSome(b.ele)) THEN acc
    ELSE LET delta == F64Sub(Unwrap(b.ele), Unwrap(a.ele))
         IN  IF F64Positive(delta) THEN <<F64Add(acc[1], delta), acc[2]>>
             ELSE IF F64Negative(delta) THEN <<acc[1], F64Add(acc[2], F64Neg(delta))>>
             ELSE acc

\* the loop over self.points.windows(2), from window i on
RECURSIVE AscentDescentFrom(_, _, _)
AscentDescentFrom(pts, i, acc) ==
    IF i + 1 > Len(pts) THEN acc
    ELSE AscentDescentFrom(pts, i + 1, AscentDescentStep(acc, pts[i], pts[i + 1]))

Segment_total_ascent_descent_m(seg) == AscentDescentFrom(seg.points, 1, <<Zero, Zero>>)

AddPair(acc, ud) == <<F64Add(acc[1], ud[1]), F64Add(acc[2], ud[2])>>

\* the body of the loop of Track::total_ascent_descent_m on one segment
TrackAscentDescentStep(acc, seg) == AddPair(acc, Segment_total_ascent_descent_m(seg))

\* the loop over &self.segments, from segment i on
RECURSIVE TrackAscentDescentFrom(_, _, _)
TrackAscentDescentFrom(segs, i, acc) ==
    IF i > Len(segs) THEN acc
    ELSE TrackAscentDescentFrom(segs, i + 1, TrackAscentDescentStep(acc, segs[i]))

RECURSIVE Flattened(_)
Flattened(segs) ==
    IF Len(segs) = 0 THEN <<>> ELSE segs[1].points \o Flattened(Tail(segs))

\* mutant: the ascent and descent of the points of all segments taken as one list
Track_total_ascent_descent_m_Flattened(track) ==
    AscentDescentFrom(Flattened(track.segments), 1, <<Zero, Zero>>)

Track_total_ascent_descent_m(track) == TrackAscentDescentFrom(track.segments, 1, <<Zero, Zero>>)

\* where a point is: its latitude and longitude
Place(p) == <<p.lat, p.lon>>

\* the place at lat and lon thousandths of a degree
At(lat, lon) == <<Dec(lat, 0 - 3), Dec(lon, 0 - 3)>>

\* haversine_m on the places the points of the model are at: <<place, place,
\* the decimal that names the f64 EARTH_RADIUS_M * c is>>
HaversineTable ==
    { << At(0, 0), At(0, 1),
         <<"1", "1", "1", ".", "1", "9", "4", "9", "2", "6", "6", "4", "4", "5", "5", "8", "7", "6">> >>,
      << At(0, 0), At(0, 2),
         <<"2", "2", "2", ".", "3", "8", "9", "8", "5", "3", "2", "8", "9", "1", "1", "7", "5">> >>,
      << At(0, 0), At(1000, 2000),
         <<"2", "4", "8", "6", "2", "9", ".", "3", "1", "4", "8", "4", "6", "8", "1", "2", "4", "6">> >>,
      << At(0, 0), At(2000, 1000),
         <<"2", "4", "8", "6", "2", "9", ".", "3", "1", "4", "8", "4", "6", "8", "1", "2", "4", "6">> >>,
      << At(0, 1), At(0, 2),
         <<"1", "1", "1", ".", "1", "9", "4", "9", "2", "6", "6", "4", "4", "5", "5", "8", "7", "6">> >>,
      << At(0, 1), At(1000, 2000),
         <<"2", "4", "8", "5", "2", "9", ".", "8", "7", "0", "1", "1", "6", "5", "9", "0", "5", "2">> >>,
      << At(0, 1), At(2000, 1000),
         <<"2", "4", "8", "5", "7", "9", ".", "6", "2", "5", "0", "3", "3", "8", "6", "6", "5", "8">> >>,
      << At(0, 2), At(1000, 2000),
         <<"2", "4", "8", "4", "3", "0", ".", "4", "3", "5", "3", "4", "4", "0", "9", "0", "8">> >>,
      << At(0, 2), At(2000, 1000),
         <<"2", "4", "8", "5", "2", "9", ".", "9", "7", "5", "0", "1", "5", "7", "6", "6", "8", "3">> >>,
      << At(1000, 2000), At(2000, 1000),
         <<"1", "5", "7", "2", "2", "5", ".", "4", "3", "2", "0", "3", "8", "0", "7", "2", "9">> >> }

\* the distance in metres between two places: NaN when a coordinate is
\* infinite or NaN, 0 from a place to itself, and the same in both directions
HaversineBetween(a, b) ==
    IF \E c \in {a[1], a[2], b[1], b[2]} : c.kind # "finite" THEN NaN
    ELSE IF a = b THEN Zero
    ELSE ParseF64((CHOOSE t \in HaversineTable : {t[1], t[2]} = {a, b})[3]).v

haversine_m(pa, pb) == HaversineBetween(Place(pa), Place(pb))

\* self.points.windows(2).map(|w| haversine_m(&w[0], &w[1])).sum(), from window
\* i on, with the sum of the windows before it
RECURSIVE DistanceFrom(_, _, _)
DistanceFrom(pts, i, sum) ==
    IF i + 1 > Len(pts) THEN sum
    ELSE DistanceFrom(pts, i + 1, F64Add(sum, haversine_m(pts[i], pts[i + 1])))

Segment_total_distance_m(seg) == DistanceFrom(seg.points, 1, Zero)

\* mutant: the distance along the points of all segments taken as one list
Track_total_distance_m_Flattened(track) == DistanceFrom(Flattened(track.segments), 1, Zero)

\* self.segments.iter().map(|s| s.total_distance_m()).sum(), from segment i on,
\* with the sum of the segments before it
RECURSIVE TrackDistanceFrom(_, _, _)
TrackDistanceFrom(segs, i, sum) ==
    IF i > Len(segs) THEN sum
    ELSE TrackDistanceFrom(segs, i + 1, F64Add(sum, Segment_total_distance_m(segs[i])))

Track_total_distance_m(track) == TrackDistanceFrom(track.segments, 1, Zero)

Track_segment_count(track) == Len(track.segments)

RECURSIVE SumLens(_)
SumLens(segs) ==
    IF Len(segs) = 0 THEN 0 ELSE Len(segs[1].points) + SumLens(Tail(segs))

\* main.rs: track.segments().iter().map(|s| s.points().len()).sum()
PointCount(track) == SumLens(track.segments)

\* ------------------------------------------------------------- tokenizer events

Event(kind, name, attrs, text) == [kind |-> kind, name |-> name, attrs |-> attrs, text |-> text]
Start(name) == Event("Start", name, <<>>, <<>>)
StartWith(name, attrs) == Event("Start", name, attrs, <<>>)
End(name) == Event("End", name, <<>>, <<>>)
Text(t) == Event("Text", "", <<>>, t)
Empty(name, attrs) == Event("Empty", name, attrs, <<>>)
Comment == Event("Comment", "", <<>>, <<>>)
CData(t) == Event("CData", "", <<>>, t)
Eof == Event("Eof", "", <<>>, <<>>)
\* read_event_into returning Err(quick_xml::Error)
Err == Event("Err", "", <<>>, <<>>)

BadAttr == [ok |-> FALSE, key |-> "", value |-> <<>>, utf8 |-> TRUE]
NotUtf8Attr(key) == [ok |-> TRUE, key |-> key, value |-> <<>>, utf8 |-> FALSE]

AttrsA == <<Attr("lat", V1_0), Attr("lon", V2_0)>>
AttrsB == <<Attr("lon", V1), Attr("lat", V2)>>
GoodAttrs == {AttrsA, AttrsB}
AttrsNoLat == <<Attr("lon", V2_0)>>
AttrsNoLon == <<Attr("lat", V1_0)>>
AttrsNone == <<>>
AttrsLatNotNumber == <<Attr("lat", Vabc), Attr("lon", V2_0)>>
AttrsNoLonMalformed == <<Attr("lat", V1_0), BadAttr>>
AttrsLonNotUtf8 == <<Attr("lat", V1_0), NotUtf8Attr("lon")>>
BadAttrs == {AttrsNoLat, AttrsNoLon, AttrsNone, AttrsLatNotNumber,
             AttrsNoLonMalformed, AttrsLonNotUtf8}

\* ------------------------------------------------------------- state

VARIABLES
    cls,              \* the class of input the stream is drawn from
    events,           \* the events read_event_into has returned so far
    open,             \* the reader's stack of open element names
    segments,         \* parse_track: segments
    current_points,   \* parse_track: current_points
    current_handler,  \* parse_track: current_handler
    current_point,    \* parse_track: current_point
    track_result,     \* parse_track: running, or what it returned
    points,           \* parse_track_points: points
    current,          \* parse_track_points: current
    points_handler,   \* parse_track_points: current_handler
    points_result,    \* parse_track_points: running, or what it returned
    report            \* main.rs run: the statistics printed, once printed

vars == <<cls, events, open, segments, current_points, current_handler, current_point,
          track_result, points, current, points_handler, points_result, report>>

Running == [state |-> "running", err |-> "", value |-> <<>>]
Ok(v) == [state |-> "ok", err |-> "", value |-> v]
\* the ? operator: the InternalError converted by From and returned
Failed(internal) == [state |-> "err", err |-> ErrorFrom(internal), value |-> <<>>]
Unused == [state |-> "unused", err |-> "", value |-> <<>>]

\* ------------------------------------------------------------- parse_track

\* the locals of parse_track as one record
TrackLocals == [segments |-> segments, current_points |-> current_points,
                current_handler |-> current_handler, current_point |-> current_point,
                result |-> track_result]

\* mutant: the segment-start arm without current_points.clear()
track_StartTrkseg_NoClear(st, e) == st

\* Event::Start(e) if e.name() == b"trkseg"
track_StartTrkseg(st, e) == [st EXCEPT !.current_points = <<>>]

\* mutant: the segment-end arm without its is_empty test
track_EndTrkseg_AlwaysPush(st, e) ==
    [st EXCEPT !.segments = Append(@, Segment(st.current_points)),
               !.current_points = <<>>]

\* Event::End(e) if e.name() == b"trkseg"
track_EndTrkseg(st, e) ==
    IF st.current_points # <<>>
    THEN [st EXCEPT !.segments = Append(@, Segment(st.current_points)),
                    !.current_points = <<>>]
    ELSE st

\* current_point = Some(parse_trkpt(&e)?); current_handler = None;
track_SetPoint(st, r) ==
    IF ~r.ok THEN [st EXCEPT !.result = Failed(r.err)]
    ELSE [st EXCEPT !.current_point = r.pt, !.current_handler = None]

\* Event::Start(e) if e.name() == b"trkpt"
track_StartTrkpt(st, e) == track_SetPoint(st, parse_trkpt(e.attrs))

\* mutant: the point is pushed but stays under construction
track_EndTrkpt_NoTake(st, e) ==
    [st EXCEPT !.current_points = IF IsSome(st.current_point)
                                  THEN Append(@, Unwrap(st.current_point)) ELSE @,
               !.current_handler = None]

\* Event::End(e) if e.name() == b"trkpt"
track_EndTrkpt(st, e) ==
    [st EXCEPT !.current_points = IF IsSome(st.current_point)
                                  THEN Append(@, Unwrap(st.current_point)) ELSE @,
               !.current_point = None,
               !.current_handler = None]

\* Event::Start(e)
track_Start(st, e) ==
    IF IsSome(st.current_point)
    THEN [st EXCEPT !.current_handler = find_handler(e.name)]
    ELSE st

\* apply(pt, &s)?
track_Applied(st, a) ==
    IF ~a.ok THEN [st EXCEPT !.result = Failed(a.err)]
    ELSE [st EXCEPT !.current_point = Some(a.pt)]

\* let s = read_text_string(e)?; apply(pt, &s)?;
track_ApplyText(st, s) ==
    IF ~s.ok THEN [st EXCEPT !.result = Failed(s.err)]
    ELSE track_Applied(st, Apply(Unwrap(st.current_handler), Unwrap(st.current_point), s.s))

\* Event::Text(e)
track_Text(st, e) ==
    IF IsSome(st.current_point) /\ IsSome(st.current_handler)
    THEN track_ApplyText(st, read_text_string(e.text))
    ELSE st

\* Event::End(_)
track_End(st, e) == [st EXCEPT !.current_handler = None]

\* mutant: at end-of-stream the points of the open segment are made a Segment
track_Eof_Flush(st, e) ==
    [st EXCEPT !.result = Ok(Track(IF st.current_points # <<>>
                                   THEN Append(st.segments, Segment(st.current_points))
                                   ELSE st.segments))]

\* Event::Eof => break, then Ok(Track::new(segments))
track_Eof(st, e) == [st EXCEPT !.result = Ok(Track(st.segments))]

\* _ => {}
track_Ignored(st, e) == st

\* read_event_into(..).map_err(InternalError::from)?
track_ReadErr(st, e) == [st EXCEPT !.result = Failed(InternalFromXml)]

\* one turn of the loop of parse_track: the match on the event read
parse_track_step(st, e) ==
    IF st.result.state # "running" THEN st
    ELSE CASE e.kind = "Err" -> track_ReadErr(st, e)
           [] e.kind = "Start" /\ e.name = "trkseg" -> track_StartTrkseg(st, e)
           [] e.kind = "End" /\ e.name = "trkseg" -> track_EndTrkseg(st, e)
           [] e.kind = "Start" /\ e.name = "trkpt" -> track_StartTrkpt(st, e)
           [] e.kind = "End" /\ e.name = "trkpt" -> track_EndTrkpt(st, e)
           [] e.kind = "Start" /\ e.name \notin {"trkseg", "trkpt"} -> track_Start(st, e)
           [] e.kind = "Text" -> track_Text(st, e)
           [] e.kind = "End" /\ e.name \notin {"trkseg", "trkpt"} -> track_End(st, e)
           [] e.kind = "Eof" -> track_Eof(st, e)
           [] OTHER -> track_Ignored(st, e)

\* ------------------------------------------------------------- parse_track_points

PointsLocals == [points |-> points, current |-> current,
                 current_handler |-> points_handler, result |-> points_result]

\* current = Some(parse_trkpt(&e)?); current_handler = None;
points_SetPoint(st, r) ==
    IF ~r.ok THEN [st EXCEPT !.result = Failed(r.err)]
    ELSE [st EXCEPT !.current = r.pt, !.current_handler = None]

\* Event::Start(e) if e.name() == b"trkpt"
points_StartTrkpt(st, e) == points_SetPoint(st, parse_trkpt(e.attrs))

\* mutant: the handler is looked up whether or not a point is open
points_Start_AlwaysBind(st, e) == [st EXCEPT !.current_handler = find_handler(e.name)]

\* Event::Start(e)
points_Start(st, e) ==
    [st EXCEPT !.current_handler = IF IsSome(st.current) THEN find_handler(e.name) ELSE None]

\* apply(pt, &s)?
points_Applied(st, a) ==
    IF ~a.ok THEN [st EXCEPT !.result = Failed(a.err)]
    ELSE [st EXCEPT !.current = Some(a.pt)]

\* let s = read_text_string(e)?; apply(pt, &s)?;
points_ApplyText(st, s) ==
    IF ~s.ok THEN [st EXCEPT !.result = Failed(s.err)]
    ELSE points_Applied(st, Apply(Unwrap(st.current_handler), Unwrap(st.current), s.s))

\* Event::Text(e)
points_Text(st, e) ==
    IF IsSome(st.current) /\ IsSome(st.current_handler)
    THEN points_ApplyText(st, read_text_string(e.text))
    ELSE st

\* mutant: the point is pushed but stays under construction
points_EndTrkpt_NoTake(st, e) ==
    [st EXCEPT !.points = IF IsSome(st.current) THEN Append(@, Unwrap(st.current)) ELSE @]

\* Event::End(e) if e.name() == b"trkpt"
points_EndTrkpt(st, e) ==
    [st EXCEPT !.points = IF IsSome(st.current) THEN Append(@, Unwrap(st.current)) ELSE @,
               !.current = None]

\* Event::End(_)
points_End(st, e) == [st EXCEPT !.current_handler = None]

\* Event::Eof => break, then Ok(points)
points_Eof(st, e) == [st EXCEPT !.result = Ok(st.points)]

\* _ => {}
points_Ignored(st, e) == st

\* read_event_into(..).map_err(InternalError::from)?
points_ReadErr(st, e) == [st EXCEPT !.result = Failed(InternalFromXml)]

\* one turn of the loop of parse_track_points
parse_track_points_step(st, e) ==
    IF st.result.state # "running" THEN st
    ELSE CASE e.kind = "Err" -> points_ReadErr(st, e)
           [] e.kind = "Start" /\ e.name = "trkpt" -> points_StartTrkpt(st, e)
           [] e.kind = "Start" /\ e.name # "trkpt" -> points_Start(st, e)
           [] e.kind = "Text" -> points_Text(st, e)
           [] e.kind = "End" /\ e.name = "trkpt" -> points_EndTrkpt(st, e)
           [] e.kind = "End" /\ e.name # "trkpt" -> points_End(st, e)
           [] e.kind = "Eof" -> points_Eof(st, e)
           [] OTHER -> points_Ignored(st, e)

\* ------------------------------------------------------------- input

\* the document of the test parse_single_trkpt, as the reader (trim_text on) yields it
DocSingle ==
    << Start("gpx"), Start("trk"), Start("trkseg"),
       StartWith("trkpt", <<Attr("lat", V1_0), Attr("lon", V2_0)>>),
       Start("time"), Text(TTime), End("time"),
       Start("ele"), Text(T123_45), End("ele"),
       End("trkpt"), End("trkseg"), End("trk"), End("gpx"), Eof >>

ElePoint(lat, lon, ele) ==
    << StartWith("trkpt", <<Attr("lat", lat), Attr("lon", lon)>>),
       Start("ele"), Text(ele), End("ele"), End("trkpt") >>

\* the document of the test parse_multiple_trkseg
DocMulti ==
    << Start("gpx"), Start("trk"), Start("trkseg") >>
    \o ElePoint(V0_0, V0_0, T100) \o ElePoint(V0_0, V0_001, T110)
    \o << End("trkseg"), Start("trkseg") >>
    \o ElePoint(V0_0, V0_001, T110) \o ElePoint(V0_0, V0_002, T105)
    \o << End("trkseg"), End("trk"), End("gpx"), Eof >>

\* a document with a segment inside a point's elevation child: the segment-start
\* arm of parse_track leaves the handler bound, the Start arm of
\* parse_track_points clears it
DocDiverge ==
    << StartWith("trkpt", AttrsA), Start("ele"), Start("trkseg"), Text(TTime),
       End("trkseg"), End("ele"), End("trkpt"), Eof >>

\* a point whose extensions child holds an element named as the elevation child
DocNested ==
    << StartWith("trkpt", AttrsA), Start("extensions"), Start("ele"), Text(T100),
       End("ele"), End("extensions"), End("trkpt"), Eof >>

\* a point whose timestamp child is followed by an extensions child that holds
\* an element named as the elevation child
DocAfterField ==
    << StartWith("trkpt", AttrsA), Start("time"), Text(TTime), End("time"),
       Start("extensions"), Start("ele"), Text(T100), End("ele"), End("extensions"),
       End("trkpt"), Eof >>

\* a document whose numbers are written with exponents, with character
\* references and as inf and NaN: the elevations of its segments are
\* [0.0009, 100, 110, 105] and [inf, NaN]
DocNotation ==
    << Start("trkseg") >>
    \o ElePoint(V1e0, V0_2E1, T0_0009) \o ElePoint(V2, V1, T1e2)
    \o ElePoint(V1_0, V2_0, TReference110) \o ElePoint(V2, V1, THexReference105)
    \o << End("trkseg"), Start("trkseg") >>
    \o ElePoint(V1_0, V2_0, TInf) \o ElePoint(V2, V1, TNaN)
    \o << End("trkseg"), Eof >>

DocClasses == {"single", "multi", "diverge", "nested", "after", "notation"}
StreamClasses == {"all", "structure", "fields"}

Doc(c) ==
    CASE c = "single" -> DocSingle
      [] c = "multi" -> DocMulti
      [] c = "diverge" -> DocDiverge
      [] c = "nested" -> DocNested
      [] c = "after" -> DocAfterField
      [] c = "notation" -> DocNotation
      [] c = "direct" -> <<>>

\* the events a stream of class c is drawn from (Eof apart)
Alphabet(c) ==
    CASE c = "all" ->
            {Start(n) : n \in {"trkseg", "ele", "time", "extensions"}}
            \cup {StartWith("trkpt", a) : a \in GoodAttrs \cup BadAttrs}
            \cup {End(n) : n \in {"trkseg", "trkpt", "ele", "time", "extensions"}}
            \cup {Text(t) : t \in {T100, TTime, TBadEntity}}
            \cup {Empty("trkpt", AttrsA), Empty("trkpt", AttrsNoLon), Comment, Err}
      [] c = "structure" ->
            {Start("trkseg"), End("trkseg"), End("trkpt")}
            \cup {StartWith("trkpt", a) : a \in GoodAttrs}
      [] c = "fields" ->
            {StartWith("trkpt", AttrsA), Comment, CData(T100)}
            \cup {Start(n) : n \in {"ele", "time", "extensions"}}
            \cup {End(n) : n \in {"trkpt", "ele", "time", "extensions"}}
            \cup {Text(t) : t \in {T100, TTime, TEscaped}}

Limit(c) ==
    CASE c = "all" -> MaxEvents
      [] c = "structure" -> MaxStructEvents
      [] c = "fields" -> MaxFieldEvents

\* what the reader can return next.  It checks end names against its stack of
\* open elements (a mismatch is an Err), returns the text between two tags as
\* one Text event, and returns Eof whatever is still open.  A stream of the
\* class "fields" is one point element: it starts with the point's start tag
\* and holds no other.
Producible(e) ==
    /\ e.kind = "End" => open # <<>> /\ open[Len(open)] = e.name
    /\ e.kind = "Text" => events = <<>> \/ events[Len(events)].kind # "Text"
    /\ e.kind # "Eof" => Len(events) < Limit(cls)
    /\ cls = "fields" => (events = <<>> <=> e.kind = "Start" /\ e.name = "trkpt")

NextEvents ==
    IF cls \in StreamClasses
    THEN {e \in Alphabet(cls) \cup {Eof} : Producible(e)}
    ELSE IF Len(events) < Len(Doc(cls)) THEN {Doc(cls)[Len(events) + 1]} ELSE {}

\* ------------------------------------------------------------- actions

SomeRunning == "running" \in {track_result.state, points_result.state}

\* the reader's stack of open elements after it returned e
OpenAfter(e) ==
    CASE e.kind = "Start" -> Append(open, e.name)
      [] e.kind = "End" -> SubSeq(open, 1, Len(open) - 1)
      [] OTHER -> open

\* the locals of the two entry points become t and p
Becomes(t, p) ==
    /\ segments' = t.segments
    /\ current_points' = t.current_points
    /\ current_handler' = t.current_handler
    /\ current_point' = t.current_point
    /\ track_result' = t.result
    /\ points' = p.points
    /\ current' = p.current
    /\ points_handler' = p.current_handler
    /\ points_result' = p.result

\* read_event_into returns e and each entry point still running matches on it
Deliver(e) ==
    /\ SomeRunning
    /\ events' = Append(events, e)
    /\ open' = OpenAfter(e)
    /\ Becomes(parse_track_step(TrackLocals, e), parse_track_points_step(PointsLocals, e))
    /\ UNCHANGED <<cls, report>>

ReadStartTrkseg == \E e \in NextEvents : e.kind = "Start" /\ e.name = "trkseg" /\ Deliver(e)
ReadEndTrkseg == \E e \in NextEvents : e.kind = "End" /\ e.name = "trkseg" /\ Deliver(e)
ReadStartTrkpt == \E e \in NextEvents : e.kind = "Start" /\ e.name = "trkpt" /\ Deliver(e)
ReadEndTrkpt == \E e \in NextEvents : e.kind = "End" /\ e.name = "trkpt" /\ Deliver(e)
ReadStart ==
    \E e \in NextEvents : e.kind = "Start" /\ e.name \notin {"trkseg", "trkpt"} /\ Deliver(e)
ReadText == \E e \in NextEvents : e.kind = "Text" /\ Deliver(e)
ReadEnd ==
    \E e \in NextEvents : e.kind = "End" /\ e.name \notin {"trkseg", "trkpt"} /\ Deliver(e)
ReadEof == \E e \in NextEvents : e.kind = "Eof" /\ Deliver(e)
ReadIgnored == \E e \in NextEvents : e.kind \in {"Empty", "Comment", "CData"} /\ Deliver(e)
ReadErr == \E e \in NextEvents : e.kind = "Err" /\ Deliver(e)

\* what run prints of a track: its distance_km, segment count, point count,
\* ascent and descent
StatisticsWith(track, distance_m, ud) ==
    [distance_km |-> F64Div1000(distance_m),
     segment_count |-> Track_segment_count(track),
     point_count |-> PointCount(track),
     ascent |-> ud[1],
     descent |-> ud[2]]

\* main.rs run, after parse_track returned Ok: the statistics of the track
Statistics(track) ==
    StatisticsWith(track, Track_total_distance_m(track), Track_total_ascent_descent_m(track))

Report ==
    /\ track_result.state = "ok"
    /\ report = None
    /\ report' = Some(Statistics(track_result.value))
    /\ UNCHANGED <<cls, events, open, segments, current_points, current_handler,
                   current_point, track_result, points, current, points_handler,
                   points_result>>

Init ==
    /\ cls \in StreamClasses \cup DocClasses
    /\ events = <<>>
    /\ open = <<>>
    /\ segments = <<>>
    /\ current_points = <<>>
    /\ current_handler = None
    /\ current_point = None
    /\ track_result = Running
    /\ points = <<>>
    /\ current = None
    /\ points_handler = None
    /\ points_result = Running
    /\ report = None

Next ==
    \/ ReadStartTrkseg
    \/ ReadEndTrkseg
    \/ ReadStartTrkpt
    \/ ReadEndTrkpt
    \/ ReadStart
    \/ ReadText
    \/ ReadEnd
    \/ ReadEof
    \/ ReadIgnored
    \/ ReadErr
    \/ Report

Spec == Init /\ [][Next]_vars

\* ------------------------------------------------------------- the statistics of a Track

\* the points a Track is built from directly: elevation unset, 100, 110 or 105
DirectPoints ==
    {TrackPoint(Zero, Zero, None, ele) : ele \in {None} \cup {Some(Num(e)) : e \in {100, 110, 105}}}

\* the lists of n points
PointLists(n) == [1..n -> DirectPoints]

\* the lists of non-empty segments that hold n points or fewer in all
RECURSIVE SegmentLists(_)
SegmentLists(n) ==
    {<<>>} \cup UNION {{<<Segment(pts)>> \o rest : pts \in PointLists(m), rest \in SegmentLists(n - m)} :
                         m \in 1..n}

\* Track::new on a list of segments, with no document read
InitStatsDirect ==
    /\ cls = "direct"
    /\ track_result \in {Ok(Track(segs)) : segs \in SegmentLists(MaxDirectPts)}
    /\ points_result = Unused

\* parse_track about to read the document of parse_multiple_trkseg
InitStatsParsed ==
    /\ cls = "multi"
    /\ track_result = Running
    /\ points_result = Running

InitStats ==
    /\ InitStatsDirect \/ InitStatsParsed
    /\ events = <<>>
    /\ open = <<>>
    /\ segments = <<>>
    /\ current_points = <<>>
    /\ current_handler = None
    /\ current_point = None
    /\ points = <<>>
    /\ current = None
    /\ points_handler = None
    /\ report = None

NextStats ==
    \/ ReadStartTrkseg
    \/ ReadEndTrkseg
    \/ ReadStartTrkpt
    \/ ReadEndTrkpt
    \/ ReadStart
    \/ ReadText
    \/ ReadEnd
    \/ ReadEof
    \/ Report

SpecStats == InitStats /\ [][NextStats]_vars

\* ------------------------------------------------------------- the ascent and descent of a Segment

\* the points of the tests of segment.rs: at (0, 0), elevation unset or set;
\* 100.1 and 100.3 are elevations no f64 is equal to, and neither is their delta
SegPoints ==
    {TrackPoint(Zero, Zero, None, ele) :
        ele \in {None} \cup {Some(Num(e)) : e \in {100, 110, 120, 130}}
                \cup {Some(Dec(1001, 0 - 1)), Some(Dec(1003, 0 - 1))}
                \cup {Some(Infinite(FALSE)), Some(NaN)}}

\* Segment::new on a list of points, with no document read
InitSegment ==
    /\ cls = "segment"
    /\ segments \in {<<Segment(pts)>> : pts \in UNION {[1..n -> SegPoints] : n \in 0..MaxSegPts}}
    /\ track_result = Unused
    /\ points_result = Unused
    /\ events = <<>>
    /\ open = <<>>
    /\ current_points = <<>>
    /\ current_handler = None
    /\ current_point = None
    /\ points = <<>>
    /\ current = None
    /\ points_handler = None
    /\ report = None

SegmentStatisticsWith(ud) == [ascent |-> ud[1], descent |-> ud[2]]

\* let (up, down) = seg.total_ascent_descent_m()
SegmentStatistics ==
    /\ cls = "segment"
    /\ report = None
    /\ report' = Some(SegmentStatisticsWith(Segment_total_ascent_descent_m(segments[1])))
    /\ UNCHANGED <<cls, events, open, segments, current_points, current_handler,
                   current_point, track_result, points, current, points_handler,
                   points_result>>

NextSegment == SegmentStatistics

SpecSegment == InitSegment /\ [][NextSegment]_vars

\* ------------------------------------------------------------- the distance of a Segment and of a Track

\* the points of segment_distance_basic and of parse_multiple_trkseg: on the
\* equator, a thousandth of a degree apart
DistancePoints ==
    {TrackPoint(Zero, Dec(lon, 0 - 3), None, None) : lon \in {0, 1, 2}}

\* the lists of k segments or fewer, empty ones among them, that hold n points
\* or fewer in all
RECURSIVE DistanceSegmentLists(_, _)
DistanceSegmentLists(n, k) ==
    IF k = 0 THEN {<<>>}
    ELSE {<<>>} \cup UNION {{<<Segment(pts)>> \o rest :
                                pts \in [1..m -> DistancePoints],
                                rest \in DistanceSegmentLists(n - m, k - 1)} :
                             m \in 0..n}

\* Track::new on a list of segments, with no document read
InitDistance ==
    /\ cls = "distance"
    /\ track_result \in {Ok(Track(segs)) : segs \in DistanceSegmentLists(MaxDistPts, MaxDistSegs)}
    /\ points_result = Unused
    /\ events = <<>>
    /\ open = <<>>
    /\ segments = <<>>
    /\ current_points = <<>>
    /\ current_handler = None
    /\ current_point = None
    /\ points = <<>>
    /\ current = None
    /\ points_handler = None
    /\ report = None

\* the distance of each segment of a Track
SegmentDistances(track) ==
    [k \in 1..Len(track.segments) |-> Segment_total_distance_m(track.segments[k])]

\* s.total_distance_m() of each segment, and track.total_distance_m()
DistanceStatistics ==
    /\ cls = "distance"
    /\ report = None
    /\ report' = Some([segment_distance |-> SegmentDistances(track_result.value),
                       distance |-> Track_total_distance_m(track_result.value)])
    /\ UNCHANGED <<cls, events, open, segments, current_points, current_handler,
                   current_point, track_result, points, current, points_handler,
                   points_result>>

NextDistance == DistanceStatistics

SpecDistance == InitDistance /\ [][NextDistance]_vars

\* ------------------------------------------------------------- the document read so far

IsStart(e, n) == e.kind = "Start" /\ e.name = n
IsEnd(e, n) == e.kind = "End" /\ e.name = n

\* the positions of the history up to i that hold a start / an end tag of n
StartsUpTo(i, n) == {j \in 1..i : IsStart(events[j], n)}
EndsUpTo(i, n) == {j \in 1..i : IsEnd(events[j], n)}

\* how many elements named n are open after event i
Depth(i, n) == Cardinality(StartsUpTo(i, n)) - Cardinality(EndsUpTo(i, n))

TrackReturned == track_result.state = "ok"
PointsReturned == points_result.state = "ok"

\* ------------------------------------------------------------- C1

\* the segment-end events that do not directly follow a segment-start
NonEmptySegmentEnds ==
    {i \in 2..Len(events) : IsEnd(events[i], "trkseg") /\ ~IsStart(events[i - 1], "trkseg")}

\* C1: every Segment parse_track has finalized, and every Segment of the Track it
\* returns, holds at least one point; a segment-end that directly follows a
\* segment-start adds no Segment, so there are at most as many Segments as
\* segment-ends that do not directly follow a segment-start.
C1_NoEmptySegment ==
    /\ \A i \in 1..Len(segments) : Len(segments[i].points) >= 1
    /\ TrackReturned =>
          \A i \in 1..Len(track_result.value.segments) :
              Len(track_result.value.segments[i].points) >= 1
    /\ Len(segments) <= Cardinality(NonEmptySegmentEnds)

\* a returned Track with a Segment, from a document that also holds an empty segment
C1_Witness ==
    /\ TrackReturned
    /\ Len(track_result.value.segments) >= 1
    /\ \E i \in 2..Len(events) : IsEnd(events[i], "trkseg") /\ IsStart(events[i - 1], "trkseg")

\* ------------------------------------------------------------- C2

\* a track-point element: a start tag, or a self-closing tag (Event::Empty)
IsPointElement(e) == e.kind \in {"Start", "Empty"} /\ e.name = "trkpt"

HasAttr(e, key) == \E i \in 1..Len(e.attrs) : e.attrs[i].ok /\ e.attrs[i].key = key

\* the attributes are well-formed and lat or lon is not among them
LacksCoordinate(e) ==
    /\ \A i \in 1..Len(e.attrs) : e.attrs[i].ok
    /\ ~HasAttr(e, "lat") \/ ~HasAttr(e, "lon")

\* the step reads one more event, e
Reads(e) == events' = Append(events, e)

\* C2: in both entry points a track-point element that lacks lat or lon aborts
\* the parse with Error::InvalidData, and no point is produced for it.
C2_MissingCoordinateAborts ==
    [][\A e \in Alphabet("all") :
          Reads(e) /\ IsPointElement(e) /\ LacksCoordinate(e) =>
              /\ track_result.state = "running" =>
                    /\ track_result'.state = "err" /\ track_result'.err = "InvalidData"
                    /\ current_point' = current_point /\ current_points' = current_points
              /\ points_result.state = "running" =>
                    /\ points_result'.state = "err" /\ points_result'.err = "InvalidData"
                    /\ current' = current /\ points' = points]_vars

\* ------------------------------------------------------------- C3

\* the texts a Text event of the model carries
Texts == {T100, T110, T105, T123_45, TTime, TEscaped, TBadEntity}

EleBound(point, handler) == IsSome(point) /\ handler = Some("apply_ele")

\* parse_track failed with kind and kept its locals as they were
TrackAborted(kind) ==
    /\ track_result' = [state |-> "err", err |-> kind, value |-> <<>>]
    /\ UNCHANGED <<segments, current_points, current_point, current_handler>>

\* parse_track_points failed with kind and kept its locals as they were
PointsAborted(kind) ==
    /\ points_result' = [state |-> "err", err |-> kind, value |-> <<>>]
    /\ UNCHANGED <<points, current, points_handler>>

\* C3 as stated: in both entry points, a text event that arrives while a point
\* is open and the elevation handler is bound, and whose text does not parse as
\* a number, aborts the parse with Error::InvalidData.
C3_Original ==
    [][\A t \in Texts :
          Reads(Text(t)) /\ ~ParseF64(t).ok =>
              /\ track_result.state = "running" /\ EleBound(current_point, current_handler)
                    => TrackAborted("InvalidData")
              /\ points_result.state = "running" /\ EleBound(current, points_handler)
                    => PointsAborted("InvalidData")]_vars

\* what a text event read under a bound elevation handler must lead to
EleTextOutcome(t) ==
    IF ~Unescape(t).ok THEN "InvalidFormat"
    ELSE IF ~ParseF64(Unescape(t).s).ok THEN "InvalidData"
    ELSE "applied"

\* C3, amended: in both entry points, a text event that arrives while a point is
\* open and the elevation handler is bound aborts the parse with
\* Error::InvalidFormat when the text cannot be unescaped, and with
\* Error::InvalidData when the unescaped text does not parse as a number; in
\* both cases nothing is returned but the error and the point is not kept.
C3_BadElevationTextAborts ==
    [][\A t \in Texts :
          Reads(Text(t)) /\ EleTextOutcome(t) # "applied" =>
              /\ track_result.state = "running" /\ EleBound(current_point, current_handler)
                    => TrackAborted(EleTextOutcome(t))
              /\ points_result.state = "running" /\ EleBound(current, points_handler)
                    => PointsAborted(EleTextOutcome(t))]_vars

\* both entry points failed with InvalidData on the text of an elevation child
C3_Witness ==
    /\ Len(events) >= 3
    /\ events[Len(events)].kind = "Text"
    /\ ~ParseF64(events[Len(events)].text).ok
    /\ IsStart(events[Len(events) - 1], "ele")
    /\ track_result = [state |-> "err", err |-> "InvalidData", value |-> <<>>]
    /\ points_result = [state |-> "err", err |-> "InvalidData", value |-> <<>>]

\* ------------------------------------------------------------- C4

IsCoordinate(a) == a.ok /\ a.key \in {"lat", "lon"}

\* a point element, a start tag or a self-closing tag, that cannot yield a
\* point: an attribute is malformed, a coordinate is no number, or a coordinate
\* is missing
InvalidPoint(e) ==
    /\ IsPointElement(e)
    /\ \/ \E i \in 1..Len(e.attrs) : ~e.attrs[i].ok
       \/ \E i \in 1..Len(e.attrs) :
             IsCoordinate(e.attrs[i]) /\ (~e.attrs[i].utf8 \/ ~ParseF64(e.attrs[i].value).ok)
       \/ ~HasAttr(e, "lat") \/ ~HasAttr(e, "lon")

\* the document read so far holds a tokenizer error or an invalid point
FailureRead == \E i \in 1..Len(events) : events[i].kind = "Err" \/ InvalidPoint(events[i])

\* a failed call returns the error alone, and main prints no statistics
NothingButTheError ==
    /\ FailureRead => track_result.state = "err" /\ points_result.state = "err"
    /\ track_result.state = "err" =>
          track_result.value = <<>> /\ track_result.err # "" /\ report = None
    /\ points_result.state = "err" => points_result.value = <<>> /\ points_result.err # ""

\* an entry point that has returned processes nothing more, and the step that
\* fails changes none of its locals
NothingAfterReturn ==
    /\ track_result.state # "running" =>
          UNCHANGED <<segments, current_points, current_point, current_handler, track_result>>
    /\ points_result.state # "running" =>
          UNCHANGED <<points, current, points_handler, points_result>>
    /\ track_result'.state = "err" =>
          UNCHANGED <<segments, current_points, current_point, current_handler>>
    /\ points_result'.state = "err" => UNCHANGED <<points, current, points_handler>>

\* C4: the parse is all-or-nothing: an event that causes a failure (a tokenizer
\* error, an invalid point, an invalid field text) ends the call with the error
\* alone; no later event is processed, nothing accumulated before the failure
\* is returned, and an invalid point is never skipped with the parse going on.
C4_AllOrNothing == [](NothingButTheError) /\ [][NothingAfterReturn]_vars

\* ------------------------------------------------------------- the elements of the document

\* how many elements are open after event i
TotalDepth(i) ==
    Cardinality({j \in 1..i : events[j].kind = "Start"})
    - Cardinality({j \in 1..i : events[j].kind = "End"})

\* the end tags after the start tag at i that close an element open at i
ClosingEnds(i) ==
    {j \in i + 1..Len(events) : events[j].kind = "End" /\ TotalDepth(j) < TotalDepth(i)}

\* the position of the end tag of the element that starts at i, 0 when it is not closed
MatchingEnd(i) ==
    IF ClosingEnds(i) = {} THEN 0
    ELSE CHOOSE j \in ClosingEnds(i) : \A k \in ClosingEnds(i) : j <= k

\* event k lies inside the element that starts at i
Inside(k, i) == i < k /\ (MatchingEnd(i) = 0 \/ k < MatchingEnd(i))

\* the value of attribute key of tag e
AttrValue(e, key) ==
    ParseF64(e.attrs[CHOOSE i \in 1..Len(e.attrs) : e.attrs[i].key = key].value).v

Coordinates(e) == <<AttrValue(e, "lat"), AttrValue(e, "lon")>>

ValidPointElement(e) ==
    /\ IsPointElement(e)
    /\ HasAttr(e, "lat") /\ HasAttr(e, "lon")
    /\ \A i \in 1..Len(e.attrs) :
          /\ e.attrs[i].ok
          /\ IsCoordinate(e.attrs[i]) => e.attrs[i].utf8 /\ ParseF64(e.attrs[i].value).ok

\* a document of the shape GPX gives a track: it was read to its end, every
\* element is closed, every point is valid, no point or segment lies inside a
\* point and no segment inside a segment
WellShaped ==
    /\ events # <<>> /\ events[Len(events)].kind = "Eof"
    /\ open = <<>>
    /\ \A i \in 1..Len(events) :
          /\ events[i].kind # "Err"
          /\ IsPointElement(events[i]) => ValidPointElement(events[i])
          /\ IsStart(events[i], "trkpt") =>
                \A k \in 1..Len(events) :
                    Inside(k, i) => ~IsPointElement(events[k]) /\ ~IsStart(events[k], "trkseg")
          /\ IsStart(events[i], "trkseg") =>
                \A k \in 1..Len(events) : Inside(k, i) => ~IsStart(events[k], "trkseg")

\* <<lat, lon>> of each point of a list
CoordinatesOf(pts) == [i \in 1..Len(pts) |-> <<pts[i].lat, pts[i].lon>>]

\* ------------------------------------------------------------- C6

\* the coordinates of the track-point elements among the first i events, in
\* document order
RECURSIVE PointElementsUpTo(_)
PointElementsUpTo(i) ==
    IF i = 0 THEN <<>>
    ELSE PointElementsUpTo(i - 1)
         \o (IF IsPointElement(events[i]) THEN <<Coordinates(events[i])>> ELSE <<>>)

\* C6: parse_track_points, when it succeeds, returns every track-point element
\* of the document exactly once, in document order, inside or outside a
\* segment.  Stated for the documents of the shape WellShaped.
C6_EveryPointOnce ==
    PointsReturned /\ WellShaped =>
        CoordinatesOf(points_result.value) = PointElementsUpTo(Len(events))

\* ------------------------------------------------------------- C5

\* reading the document one event further: a segment start opens an empty
\* list of points, a point element inside a segment joins the list, a segment
\* end closes the list and keeps it when it holds a point
SegmentElementsStep(acc, e) ==
    IF IsStart(e, "trkseg") THEN [acc EXCEPT !.inside = TRUE, !.cur = <<>>]
    ELSE IF IsPointElement(e) /\ acc.inside THEN [acc EXCEPT !.cur = Append(@, Coordinates(e))]
    ELSE IF IsEnd(e, "trkseg")
    THEN [acc EXCEPT !.inside = FALSE, !.cur = <<>>,
                     !.segs = IF acc.cur = <<>> THEN @ ELSE Append(@, acc.cur)]
    ELSE acc

RECURSIVE SegmentElementsUpTo(_)
SegmentElementsUpTo(i) ==
    IF i = 0 THEN [segs |-> <<>>, cur |-> <<>>, inside |-> FALSE]
    ELSE SegmentElementsStep(SegmentElementsUpTo(i - 1), events[i])

\* C5: the Track parse_track returns holds one Segment per segment element with
\* at least one point, in document order, and each Segment holds exactly the
\* points of its segment element, in document order.  Stated for the documents
\* of the shape WellShaped.
C5_SegmentsAsInDocument ==
    TrackReturned /\ WellShaped =>
        [i \in 1..Len(track_result.value.segments) |->
            CoordinatesOf(track_result.value.segments[i].points)]
        = SegmentElementsUpTo(Len(events)).segs

\* ------------------------------------------------------------- C7

\* the start tags of the points with coordinates c
PointStarts(c) ==
    {i \in 1..Len(events) :
        IsStart(events[i], "trkpt") /\ ValidPointElement(events[i]) /\ Coordinates(events[i]) = c}

\* the point that starts at i is closed, and starts and ends outside any segment
OutsideAnySegment(i) ==
    /\ MatchingEnd(i) # 0
    /\ Depth(i, "trkseg") = 0
    /\ Depth(MatchingEnd(i), "trkseg") = 0

\* no other point starts between the start and the end of the point that starts at i
NoPointStartsInside(i) ==
    \A k \in 1..Len(events) : Inside(k, i) => ~IsStart(events[k], "trkpt")

\* no Segment of the returned Track holds a point with coordinates c, and the
\* returned list holds one for each point of the document with coordinates c
DroppedButListed(c) ==
    /\ TrackReturned =>
          \A i \in 1..Len(track_result.value.segments) :
              \A j \in 1..Len(track_result.value.segments[i].points) :
                  CoordinatesOf(track_result.value.segments[i].points)[j] # c
    /\ PointsReturned =>
          Cardinality({j \in 1..Len(points_result.value) :
                          CoordinatesOf(points_result.value)[j] = c})
          = Cardinality(PointStarts(c))

CoordinatesA == Coordinates(StartWith("trkpt", AttrsA))
CoordinatesB == Coordinates(StartWith("trkpt", AttrsB))

\* C7 as stated: a point whose start and end events both occur outside any
\* segment is in no Segment of the Track parse_track returns, and is in the
\* list parse_track_points returns.  Points are told apart by their
\* coordinates: the statement is made of the documents all of whose points
\* with coordinates c are outside any segment.
C7_Original ==
    \A c \in {CoordinatesA, CoordinatesB} :
        (\A i \in PointStarts(c) : OutsideAnySegment(i)) => DroppedButListed(c)

\* C7, amended: a point whose start and end events both occur outside any
\* segment, and between whose start and end no other point starts, is in no
\* Segment of the Track parse_track returns, and is once in the list
\* parse_track_points returns.
C7_OutsidePointsDropped ==
    \A c \in {CoordinatesA, CoordinatesB} :
        (\A i \in PointStarts(c) : OutsideAnySegment(i) /\ NoPointStartsInside(i))
            => DroppedButListed(c)

\* both calls returned; the point B lies before a segment that holds the point A
C7_Witness ==
    /\ TrackReturned
    /\ PointsReturned
    /\ PointStarts(CoordinatesB) # {}
    /\ \A i \in PointStarts(CoordinatesB) : OutsideAnySegment(i) /\ NoPointStartsInside(i)
    /\ Len(track_result.value.segments) = 1
    /\ \E j \in 1..Len(points_result.value) : CoordinatesOf(points_result.value)[j] = CoordinatesB
    /\ \E i \in PointStarts(CoordinatesA) : Depth(i, "trkseg") = 1

\* ------------------------------------------------------------- C9

\* an unrecognized child of a point is open: the point that starts at i and its
\* child that starts at j are not closed, and the child is named neither as the
\* elevation nor as the timestamp child
InUnrecognizedChild ==
    \E i \in 1..Len(events) : \E j \in i + 1..Len(events) :
        /\ IsStart(events[i], "trkpt") /\ MatchingEnd(i) = 0
        /\ events[j].kind = "Start" /\ MatchingEnd(j) = 0
        /\ TotalDepth(j) = TotalDepth(i) + 1
        /\ find_handler(events[j].name) = None

\* C9: in both entry points an unrecognized child of an open point, and all text
\* inside it, leave every field of the point unchanged and never cause a
\* failure: a text event read while an unrecognized child is open applies no
\* handler to the point.
C9_UnrecognizedChildIgnored ==
    [][\A e \in Alphabet("fields") :
          Reads(e) /\ e.kind = "Text" /\ InUnrecognizedChild =>
              /\ track_result.state = "running" =>
                    track_result'.state = "running" /\ current_point' = current_point
              /\ points_result.state = "running" =>
                    points_result'.state = "running" /\ current' = current]_vars

\* ------------------------------------------------------------- C8

PointElements == {i \in 1..Len(events) : IsPointElement(events[i])}

\* the children named n of the element that starts at i
Children(i, n) ==
    {j \in 1..Len(events) :
        Inside(j, i) /\ IsStart(events[j], n) /\ TotalDepth(j) = TotalDepth(i) + 1}

\* the content of the element that starts at j is one text
HoldsOneText(j) ==
    /\ j + 2 <= Len(events)
    /\ events[j + 1].kind = "Text"
    /\ MatchingEnd(j) = j + 2

\* field, of the point that starts at i, is what the children named n make it:
\* None when there is none, and the value of the text of the only one
FieldFrom(i, n, field, value(_)) ==
    /\ Children(i, n) = {} => field = None
    /\ \A j \in Children(i, n) :
          Children(i, n) = {j} /\ HoldsOneText(j) =>
              field = Some(value(Unescape(events[j + 1].text).s))

TimeValue(s) == s
EleValue(s) == ParseF64(s).v

\* pt is the point of the element that starts at i
CarriesItsElement(pt, i) ==
    /\ <<pt.lat, pt.lon>> = Coordinates(events[i])
    /\ FieldFrom(i, "time", pt.time, TimeValue)
    /\ FieldFrom(i, "ele", pt.ele, EleValue)

\* C8: a completed point carries the latitude and longitude of its lat and lon
\* attributes, the text of its timestamp child, and the number parsed from the
\* text of its elevation child; a field whose child is absent stays None.  It is
\* stated of the documents with one point element: the flat list is that one
\* point, and so is every point of the Track.  The document of
\* parse_single_trkpt gives one point with 1.0, 2.0, the timestamp and 123.45.
C8_PointCarriesItsFields ==
    /\ \A i \in PointElements :
          PointElements = {i} /\ IsStart(events[i], "trkpt") /\ WellShaped =>
              /\ PointsReturned =>
                    /\ Len(points_result.value) = 1
                    /\ CarriesItsElement(points_result.value[1], i)
              /\ TrackReturned =>
                    \A k \in 1..Len(track_result.value.segments) :
                        \A j \in 1..Len(track_result.value.segments[k].points) :
                            CarriesItsElement(track_result.value.segments[k].points[j], i)
    /\ cls = "single" /\ PointsReturned =>
          points_result.value = <<TrackPoint(Num(1), Num(2), Some(TTime), Some(Dec(12345, 0 - 2)))>>

\* ------------------------------------------------------------- C10

\* what the window w = <<k, j>>, the points j and j + 1 of segment k, adds to
\* the ascent and to the descent
Rise(track, w) ==
    AscentDescentStep(<<Zero, Zero>>, track.segments[w[1]].points[w[2]],
                      track.segments[w[1]].points[w[2] + 1])

\* the sum of what the first n windows of segment k add, in their order
RECURSIVE SumOfRises(_, _, _)
SumOfRises(track, k, n) ==
    IF n <= 0 THEN <<Zero, Zero>>
    ELSE AddPair(SumOfRises(track, k, n - 1), Rise(track, <<k, n>>))

\* the sum, over the first n segments in their order, of the sums of their windows
RECURSIVE SumOfWindows(_, _)
SumOfWindows(track, n) ==
    IF n = 0 THEN <<Zero, Zero>>
    ELSE AddPair(SumOfWindows(track, n - 1),
                 SumOfRises(track, n, Len(track.segments[n].points) - 1))

\* the sum of the ascents and descents of the first n segments, in their order
RECURSIVE SumOfSegments(_, _)
SumOfSegments(segs, n) ==
    IF n = 0 THEN <<Zero, Zero>>
    ELSE AddPair(SumOfSegments(segs, n - 1), Segment_total_ascent_descent_m(segs[n]))

\* the elevations of the points of each segment
Elevations(track) ==
    [k \in 1..Len(track.segments) |->
        [j \in 1..Len(track.segments[k].points) |-> track.segments[k].points[j].ele]]

Reported(track, r) ==
    /\ <<r.ascent, r.descent>> = SumOfSegments(track.segments, Len(track.segments))
    /\ <<r.ascent, r.descent>> = SumOfWindows(track, Len(track.segments))
    /\ r.segment_count = Len(track.segments)
    /\ Elevations(track) = << <<Some(Num(100)), Some(Num(110))>>,
                              <<Some(Num(110)), Some(Num(105))>> >>
          => r.segment_count = 2 /\ r.ascent = Num(10) /\ r.descent = Num(5)

\* C10: Track::total_ascent_descent_m is the component-wise sum of
\* Segment::total_ascent_descent_m over the segments, which is the sum over the
\* windows of two consecutive points of one segment: the step from the last
\* point of a segment to the first of the next adds nothing.  segment_count is
\* the number of segments.  Segments with elevations [100, 110] and [110, 105]
\* give segment count 2 and (10, 5).
C10_TrackSumsItsSegments ==
    report # None => Reported(track_result.value, Unwrap(report))

\* the statistics of a Track of two segments, the second of which starts higher
\* than the first ends, were computed
C10_Witness ==
    /\ report # None
    /\ Len(track_result.value.segments) = 2
    /\ Elevations(track_result.value)[1] = <<Some(Num(100)), Some(Num(105))>>
    /\ Elevations(track_result.value)[2][1] = Some(Num(110))

\* ------------------------------------------------------------- C11

\* the elevations of a list of points
ElevationsOf(pts) == [j \in 1..Len(pts) |-> pts[j].ele]

AllHaveElevation(pts) == \A j \in 1..Len(pts) : IsSome(pts[j].ele)

\* the delta of the pair (pts[j], pts[j + 1]) of points with elevation
Delta(pts, j) == F64Sub(Unwrap(pts[j + 1].ele), Unwrap(pts[j].ele))

\* the deltas d above zero, and the magnitudes of those below: 0 for any other
Rising(d) == IF F64Positive(d) THEN d ELSE Zero
Falling(d) == IF F64Negative(d) THEN F64Neg(d) ELSE Zero

\* the sum of the positive deltas of the first n pairs
RECURSIVE PositiveDeltas(_, _)
PositiveDeltas(pts, n) ==
    IF n <= 0 THEN Zero
    ELSE F64Add(PositiveDeltas(pts, n - 1), Rising(Delta(pts, n)))

\* the sum of the magnitudes of the negative deltas of the first n pairs
RECURSIVE NegativeDeltas(_, _)
NegativeDeltas(pts, n) ==
    IF n <= 0 THEN Zero
    ELSE F64Add(NegativeDeltas(pts, n - 1), Falling(Delta(pts, n)))

SumsOfDeltas(pts, r) ==
    /\ r.ascent = PositiveDeltas(pts, Len(pts) - 1)
    /\ r.descent = NegativeDeltas(pts, Len(pts) - 1)
    /\ ~F64Negative(r.ascent) /\ ~F64Negative(r.descent)
    /\ r.ascent.kind # "nan" /\ r.descent.kind # "nan"
    /\ ElevationsOf(pts) = <<Some(Num(100)), Some(Num(120)), Some(Num(110))>>
          => r.ascent = Num(20) /\ r.descent = Num(10)

\* C11: for a segment whose points all have an elevation,
\* Segment::total_ascent_descent_m returns the sum of the positive deltas and
\* the sum of the magnitudes of the negative deltas of the consecutive pairs;
\* a zero delta adds to neither and neither result is negative.  The elevations
\* [100, 120, 110] give ascent 20 and descent 10.
C11_SegmentAscentDescent ==
    report # None /\ AllHaveElevation(segments[1].points)
        => SumsOfDeltas(segments[1].points, Unwrap(report))

\* the ascent and descent of a segment that rises, stays level and falls were computed
C11_Witness ==
    /\ report # None
    /\ ElevationsOf(segments[1].points) = <<Some(Num(100)), Some(Num(120)), Some(Num(120))>>
          \/ ElevationsOf(segments[1].points) = <<Some(Num(120)), Some(Num(120)), Some(Num(110))>>
    /\ F64Positive(F64Add(Unwrap(report).ascent, Unwrap(report).descent))

\* ------------------------------------------------------------- C12

\* the pairs of consecutive points that both have an elevation
CompletePairs(pts) ==
    {j \in 1..Len(pts) - 1 : IsSome(pts[j].ele) /\ IsSome(pts[j + 1].ele)}

\* the sum, over those of the first n pairs that are in js and in their order,
\* of what a pair of points with elevation adds
RECURSIVE SumOverPairs(_, _, _)
SumOverPairs(pts, js, n) ==
    IF n <= 0 THEN <<Zero, Zero>>
    ELSE IF n \notin js THEN SumOverPairs(pts, js, n - 1)
    ELSE AddPair(SumOverPairs(pts, js, n - 1),
                 <<Rising(Delta(pts, n)), Falling(Delta(pts, n))>>)

GapsAddNothing(pts, r) ==
    /\ <<r.ascent, r.descent>> = SumOverPairs(pts, CompletePairs(pts), Len(pts) - 1)
    /\ CompletePairs(pts) = {} => r.ascent = Zero /\ r.descent = Zero
    /\ ElevationsOf(pts) = <<Some(Num(100)), None, Some(Num(130))>>
          => r.ascent = Zero /\ r.descent = Zero

\* C12: in Segment::total_ascent_descent_m a consecutive pair in which either
\* point has no elevation adds 0 to the ascent and 0 to the descent, whatever
\* the elevation of the other point: the result is made of the pairs of two
\* points with elevation alone, and the elevation before a gap is not carried
\* over to the point after it.  The elevations [100, none, 130] give (0, 0).
C12_MissingElevationAddsNothing ==
    report # None => GapsAddNothing(segments[1].points, Unwrap(report))

\* the ascent and descent of the elevations [100, none, 130] were computed
C12_Witness ==
    /\ report # None
    /\ ElevationsOf(segments[1].points) = <<Some(Num(100)), None, Some(Num(130))>>
    /\ Unwrap(report) = [ascent |-> Zero, descent |-> Zero]

\* ------------------------------------------------------------- C13

\* mutant: the locals are not made anew: a run starts with what the run before
\* it has left in them
TrackStart_Reused == TrackLocals

\* the locals of parse_track when it enters its loop
TrackStart ==
    [segments |-> <<>>, current_points |-> <<>>, current_handler |-> None,
     current_point |-> None, result |-> Running]

\* the state of a second run of parse_track after the first n events of the stream
RECURSIVE SecondRun(_)
SecondRun(n) ==
    IF n = 0 THEN TrackStart ELSE parse_track_step(SecondRun(n - 1), events[n])

\* a == b of two f64, by which NaN is equal to no value, NaN included; with
\* nans, two NaN are taken as the same value
SameF64(a, b, nans) ==
    IF a.kind = "nan" \/ b.kind = "nan" THEN nans /\ a.kind = b.kind ELSE a = b

SameOption(a, b, nans) ==
    IF IsSome(a) /\ IsSome(b) THEN SameF64(Unwrap(a), Unwrap(b), nans) ELSE a = b

\* #[derive(PartialEq)] of TrackPoint: p == q, field by field
SamePoint(p, q, nans) ==
    /\ SameF64(p.lat, q.lat, nans)
    /\ SameF64(p.lon, q.lon, nans)
    /\ p.time = q.time
    /\ SameOption(p.ele, q.ele, nans)

\* as many points, and equal points one by one in their order
SamePoints(ps, qs, nans) ==
    Len(ps) = Len(qs) /\ \A i \in 1..Len(ps) : SamePoint(ps[i], qs[i], nans)

\* as many segments, and equal points in each, in their order
SameSegments(ss, ts, nans) ==
    Len(ss) = Len(ts) /\ \A i \in 1..Len(ss) : SamePoints(ss[i].points, ts[i].points, nans)

\* the point under construction
SameCurrent(a, b, nans) ==
    IF IsSome(a) /\ IsSome(b) THEN SamePoint(Unwrap(a), Unwrap(b), nans) ELSE a = b

\* both running, the same error kind, or two equal Tracks
SameOutcome(r, t, nans) ==
    /\ r.state = t.state
    /\ r.err = t.err
    /\ r.state = "ok" => SameSegments(r.value.segments, t.value.segments, nans)

\* two runs in the same parser state
SameState(a, b, nans) ==
    /\ SameSegments(a.segments, b.segments, nans)
    /\ SamePoints(a.current_points, b.current_points, nans)
    /\ SameCurrent(a.current_point, b.current_point, nans)
    /\ a.current_handler = b.current_handler
    /\ SameOutcome(a.result, b.result, nans)

PointsHeld(st) ==
    Flattened(st.segments) \o st.current_points \o st.current_point
    \o (IF st.result.state = "ok" THEN Flattened(st.result.value.segments) ELSE <<>>)

HoldsNaN(p) == p.lat = NaN \/ p.lon = NaN \/ p.ele = Some(NaN)

NoNaN(pts) == \A i \in 1..Len(pts) : ~HoldsNaN(pts[i])

PairDistance(pts, j) == haversine_m(pts[j], pts[j + 1])

\* the sum of the distances of the first n pairs of consecutive points
RECURSIVE SumOfPairDistances(_, _)
SumOfPairDistances(pts, n) ==
    IF n <= 0 THEN Zero ELSE F64Add(SumOfPairDistances(pts, n - 1), PairDistance(pts, n))

\* the sum of the first k of a list of numbers
RECURSIVE SumOfFirst(_, _)
SumOfFirst(ds, k) == IF k = 0 THEN Zero ELSE F64Add(SumOfFirst(ds, k - 1), ds[k])

DistancesAddUp(track, r) ==
    /\ \A k \in 1..Len(track.segments) :
          /\ Len(track.segments[k].points) <= 1 => r.segment_distance[k] = Zero
          /\ r.segment_distance[k]
                = SumOfPairDistances(track.segments[k].points, Len(track.segments[k].points) - 1)
    /\ r.distance = SumOfFirst(r.segment_distance, Len(track.segments))

\* C14: Segment::total_distance_m is 0 for a segment of 0 or 1 points and
\* otherwise the sum of the distances of its n - 1 pairs of consecutive points;
\* Track::total_distance_m is the sum of the distances of its segments, so
\* nothing is counted from the last point of a segment to the first of the next.
C14_DistanceSumsPairs ==
    report # None => DistancesAddUp(track_result.value, Unwrap(report))

\* the distances of a Track of two segments of two points were computed, the
\* second segment starting away from where the first ends
C14_Witness ==
    /\ report # None
    /\ Len(track_result.value.segments) = 2
    /\ Len(track_result.value.segments[1].points) = 2
    /\ Len(track_result.value.segments[2].points) = 2
    /\ track_result.value.segments[1].points[2] # track_result.value.segments[2].points[1]
    /\ F64Positive(Unwrap(report).segment_distance[1])
    /\ F64Positive(Unwrap(report).segment_distance[2])

\* ------------------------------------------------------------- C15

\* the last event read is a segment-start
AfterSegmentStart == events # <<>> /\ IsStart(events[Len(events)], "trkseg")

\* C15: in parse_track a segment-start event received in any state clears the
\* point buffer and leaves the parser Idle: after it no point is under
\* construction and no field handler is bound, so a text event that follows it
\* changes no point.
C15_SegmentStartLeavesIdle ==
    [][/\ Reads(Start("trkseg")) /\ track_result.state = "running" =>
              /\ current_points' = <<>>
              /\ current_point' = None
              /\ current_handler' = None
       /\ \A t \in Texts :
              Reads(Text(t)) /\ AfterSegmentStart /\ track_result.state = "running" =>
                  /\ track_result'.state = "running"
                  /\ UNCHANGED <<segments, current_points, current_point>>]_vars

\* ------------------------------------------------------------- C16

\* e is an end event named neither as the point nor as the segment
IsChildEnd(e) == e.kind = "End" /\ e.name \notin {"trkpt", "trkseg"}

\* the end events of the model that are named neither as the point nor as the segment
ChildEnds == {End(n) : n \in {"ele", "time", "extensions", "trk", "gpx"}}

\* event k is the start of a recognized child element of a point
IsFieldChildStart(k) ==
    /\ events[k].kind = "Start"
    /\ find_handler(events[k].name) # None
    /\ \E i \in 1..k - 1 :
          IsStart(events[i], "trkpt") /\ Inside(k, i) /\ TotalDepth(k) = TotalDepth(i) + 1

\* a child element has ended and no recognized child element of a point has
\* started since
NoFieldSinceChildEnd ==
    \E i \in 1..Len(events) :
        /\ IsChildEnd(events[i])
        /\ \A k \in i + 1..Len(events) : ~IsFieldChildStart(k)

\* C16: in both entry points an end event named neither as the point nor as the
\* segment clears the bound handler, in any state; text that follows the end of
\* a child element is not applied to the open point until another recognized
\* child element starts.
C16_ChildEndClearsHandler ==
    [][/\ \A e \in ChildEnds :
              Reads(e) =>
                  /\ track_result.state = "running" => current_handler' = None
                  /\ points_result.state = "running" => points_handler' = None
       /\ \A t \in Texts :
              Reads(Text(t)) /\ NoFieldSinceChildEnd =>
                  /\ track_result.state = "running" =>
                        track_result'.state = "running" /\ current_point' = current_point
                  /\ points_result.state = "running" =>
                        points_result'.state = "running" /\ current' = current]_vars

\* ------------------------------------------------------------- C17

\* list becomes list with the point under construction, if there is one, at its end
Emitted(point, before, after) ==
    IF IsSome(point) THEN after = Append(before, Unwrap(point)) ELSE after = before

\* what a point-end does in each entry point that is running
PointEndEmits ==
    Reads(End("trkpt")) =>
        /\ track_result.state = "running" =>
              /\ Emitted(current_point, current_points, current_points')
              /\ current_point' = None
              /\ track_result'.state = "running"
              /\ UNCHANGED segments
        /\ points_result.state = "running" =>
              /\ Emitted(current, points, points')
              /\ current' = None
              /\ points_result'.state = "running"

\* no more points have been emitted than point elements have ended
NoPointTwice ==
    /\ Len(points) <= Cardinality(EndsUpTo(Len(events), "trkpt"))
    /\ SumLens(segments) + Len(current_points) <= Cardinality(EndsUpTo(Len(events), "trkpt"))

\* C17: a point-end received while a point is under construction appends that
\* point, with the fields set so far, once to the end of the buffer
\* (parse_track) or of the list (parse_track_points) and leaves no point under
\* construction; a point-end received with no point open leaves the buffer or
\* list as it is.  Hence no point is emitted twice.
C17_PointEndEmitsOnce == [](NoPointTwice) /\ [][PointEndEmits]_vars

\* the end of a point with an elevation was read: the point is the last of the
\* buffer and of the list, and no point is under construction
C17_Witness ==
    /\ events # <<>> /\ IsEnd(events[Len(events)], "trkpt")
    /\ current_point = None /\ current = None
    /\ points # <<>> /\ points[Len(points)].ele = Some(Num(100))
    /\ current_points # <<>> /\ current_points[Len(current_points)] = points[Len(points)]

\* ------------------------------------------------------------- C18

\* end-of-stream has been read
EofRead == \E i \in 1..Len(events) : events[i].kind = "Eof"

\* an entry point that reads end-of-stream returns what it has accumulated
ReturnsAtEof ==
    Reads(Eof) =>
        /\ track_result.state = "running" => track_result' = Ok(Track(segments))
        /\ points_result.state = "running" => points_result' = Ok(points)

\* no event is read after end-of-stream; a step reads one event at most and
\* leaves the events read before as they are
StopsAtEof ==
    /\ EofRead => UNCHANGED <<events, segments, current_points, current_point,
                              current_handler, track_result, points, current,
                              points_handler, points_result>>
    /\ Len(events') <= Len(events) + 1
    /\ SubSeq(events', 1, Len(events)) = events

\* once end-of-stream has been read both entry points have returned, and the
\* one that met no failure returned success
ReturnedAtEof ==
    EofRead =>
        /\ track_result.state \in {"ok", "err"}
        /\ points_result.state \in {"ok", "err"}
        /\ events[Len(events)].kind = "Eof"

\* C18: for every finite event stream that causes no failure, both entry points
\* consume each event once, in order, and stop at end-of-stream in whatever
\* state they are (point open, handler bound, segment open): parse_track
\* returns the Track of the segments finalized so far, parse_track_points the
\* list of the points completed so far, and nothing is processed after
\* end-of-stream.
C18_StopsAtEndOfStream == [](ReturnedAtEof) /\ [][ReturnsAtEof /\ StopsAtEof]_vars

\* end-of-stream was read with a point open after a segment had been finalized:
\* both entry points returned what they had
C18_Witness ==
    /\ EofRead
    /\ current_point # None
    /\ current_points = <<>>
    /\ segments # <<>>
    /\ track_result = Ok(Track(segments))
    /\ points_result = Ok(points)
    /\ points # <<>>

\* ------------------------------------------------------------- C19

\* the state of the machine the spec describes, from a point and a handler
Phase(point, handler) ==
    IF point = None THEN (IF handler = None THEN "Idle" ELSE "HandlerWithoutPoint")
    ELSE (IF handler = None THEN "InPoint" ELSE "InPointField")

\* C19: in every reachable state of both entry points a bound field handler
\* implies a point under construction: the parser is Idle (no point, no
\* handler), InPoint (point, no handler) or InPointField (point and handler),
\* never with a handler bound and no point open.
C19_HandlerImpliesPoint ==
    /\ Phase(current_point, current_handler) \in {"Idle", "InPoint", "InPointField"}
    /\ Phase(current, points_handler) \in {"Idle", "InPoint", "InPointField"}

\* a point has been completed and the next one has a handler bound in both entry points
C19_Witness ==
    /\ points # <<>>
    /\ Phase(current_point, current_handler) = "InPointField"
    /\ Phase(current, points_handler) = "InPointField"

\* ------------------------------------------------------------- C20

\* no segment starts inside a segment
SegmentsNotNested ==
    \A i \in 1..Len(events) : IsStart(events[i], "trkseg") => Depth(i - 1, "trkseg") = 0

\* every point element starts and ends inside a segment
PointsInsideSegments ==
    \A i \in 1..Len(events) :
        /\ IsPointElement(events[i]) => Depth(i, "trkseg") >= 1
        /\ IsEnd(events[i], "trkpt") => Depth(i, "trkseg") >= 1

\* every segment that was started has ended
SegmentsClosed == Depth(Len(events), "trkseg") = 0

\* both fail with the same error kind, or both succeed and the points of the
\* segments of the Track, one after the other, are the list
Agree ==
    /\ track_result.state = points_result.state
    /\ track_result.err = points_result.err
    /\ TrackReturned => Flattened(track_result.value.segments) = points_result.value

\* C20 as stated: for every event stream in which segments are not nested and
\* every point element starts and ends inside a segment, parse_track and
\* parse_track_points both fail with the same error kind, or both succeed with
\* the same points in the same order.
C20_Original ==
    ~SomeRunning /\ SegmentsNotNested /\ PointsInsideSegments => Agree

\* C20, amended: for every event stream in which segments are not nested, every
\* segment that starts also ends, and every point element starts and ends
\* inside a segment, parse_track and parse_track_points both fail with the same
\* error kind, or both succeed with the same points in the same order.
C20_EntryPointsAgree ==
    ~SomeRunning /\ SegmentsNotNested /\ SegmentsClosed /\ PointsInsideSegments => Agree

\* both entry points returned the two points of a document of two segments
C20_Witness ==
    /\ TrackReturned /\ PointsReturned
    /\ SegmentsNotNested /\ SegmentsClosed /\ PointsInsideSegments
    /\ Len(track_result.value.segments) = 2
    /\ Len(points_result.value) >= 2
    /\ Flattened(track_result.value.segments) = points_result.value

====
